---- MODULE Spec2Model ----
(***************************************************************************)
(* Model of spacylize's data generation pipeline                           *)
(* (src/spacylize/generator.py): the annotation parsers, the document      *)
(* builders, the task registry and DataGenerator.run.                      *)
(*                                                                         *)
(* A Python str is a sequence of one-character strings.  Offsets are       *)
(* Python offsets: position p lies before the (p+1)-th character, and the  *)
(* slice text[a:b] is SubSeq(text, a + 1, b).                              *)
(***************************************************************************)
EXTENDS Integers, Sequences, FiniteSets, TLC

VARIABLES
    \* ---- DataGenerator (one object, one call of run) ----
    task,           \* self.task
    registry,       \* TaskHandler._HANDLERS, the class attribute
    n_samples,      \* self.n_samples
    output_path,    \* self.output_path
    prompt_config,  \* self.prompt_config: [user, system] contents
    pc,             \* position of run(): start, loop, parse, build, done, failed
    rnd,            \* number of loop iterations started so far
    handler,        \* (parser_cls, builder_cls) bound at line 254
    result,         \* local `result` of the current iteration
    parsed_data,    \* local `parsed_data` of the current iteration
    doc_bin,        \* documents added to doc_bin, in order
    calls,          \* every call of llm_client.generate: arguments and outcome
    disk,           \* every call of doc_bin.to_disk: path and documents
    error,          \* exception that left run(), or "none"
    lookups,        \* the task of every TaskHandler.get_handler call of run()
    \* ---- the parsers applied to one input string ----
    text,           \* input string under construction
    npieces,        \* number of pieces the input was built from
    ppc,            \* input, parsed, built
    ner_out,        \* value returned by NERParser.parse(text)
    cat_out,        \* value returned by TextCatParser.parse(text)
    doc_out,        \* value returned by NERDocumentBuilder.build(nlp, ner_out)
    \* ---- LLMClient (src/spacylize/llm.py) ----
    llm_client,     \* the client's attributes: model, api_key, api_base, max_tokens
    llm_args,       \* arguments of the current generate call
    llm_resp,       \* what completion(...) did in the current generate call
    llm_ret,        \* what the current generate call returned or raised
    completion_calls, \* keyword arguments of every completion(...) call
    gen_count,      \* number of generate calls made
    lpc,            \* idle, returned
    \* ---- _expand_env_vars (src/spacylize/llm_config.py) ----
    environ,        \* os.environ: variable name -> value
    env_in,         \* the value passed to _expand_env_vars
    env_depth,      \* nesting depth of env_in
    env_out,        \* the value _expand_env_vars returned
    epc,            \* input, expanded
    \* ---- load_llm_config, load_prompt_config ----
    cfg_raw,        \* what yaml.safe_load returned for the file at path
    output_folder,  \* load_prompt_config's output_folder argument
    cfg_out,        \* what the loader returned or raised
    files,          \* the rendered prompt files on disk
    cpc,            \* input, llm_loaded, prompt_loaded
    \* ---- the generate command (src/spacylize/cli.py) ----
    cli_pc,         \* idle, try, exited, escaped
    exit_code,      \* the exit status of the command, None while it runs
    echoed,         \* what typer.echo printed, in order
    \* ---- DataValidator (src/spacylize/validator.py) ----
    dataset,        \* the documents of the file at dataset_path
    task_arg,       \* the task argument of __init__
    vtask,          \* self.task
    verr,           \* exception that left __init__ or run()
    reports,        \* the report files on disk
    vpc             \* idle, new, ready, done, failed

runVars == <<task, registry, n_samples, output_path, prompt_config, pc, rnd, handler,
             result, parsed_data, doc_bin, calls, disk, error, lookups>>

parseVars == <<text, npieces, ppc, ner_out, cat_out, doc_out>>

llmVars == <<llm_client, llm_args, llm_resp, llm_ret, completion_calls,
             gen_count, lpc>>

envVars == <<environ, env_in, env_depth, env_out, epc>>

cfgVars == <<cfg_raw, output_folder, cfg_out, files, cpc>>

cliVars == <<cli_pc, exit_code, echoed>>

valVars == <<dataset, task_arg, vtask, verr, reports, vpc>>

cmdVars == <<cliVars, valVars>>

auxVars == <<llmVars, envVars, cfgVars, cmdVars>>

vars == <<runVars, parseVars, auxVars>>

----------------------------------------------------------------------------
(* Bounds *)

\* largest n_samples explored
MaxSamples == 3

\* largest number of pieces an input string of the parsers is built from
MaxPieces == 5

\* largest number of pieces an input string of TextCatParser.parse is built from
MaxCatPieces == 6

\* largest number of generate calls made on one LLMClient
MaxLLMCalls == 2

\* largest number of documents in a validated dataset
MaxDocs == 2

\* deepest nesting of mappings and sequences passed to _expand_env_vars
MaxDepth == 2

----------------------------------------------------------------------------
(* Python string helpers *)

\* text[a:b] for 0 <= a, b (Python clamps b to len and yields "" if a >= b)
Slice(s, a, b) ==
    LET hi == IF b > Len(s) THEN Len(s) ELSE b
    IN  IF a >= hi THEN <<>> ELSE SubSeq(s, a + 1, hi)

\* text[p] as a character, p a Python index
CharAt(s, p) == s[p + 1]

\* smallest q with from <= q < len(s) and s[q] = c, or -1 (str.find(c, from))
RECURSIVE FindChar(_, _, _)
FindChar(s, c, from) ==
    IF from >= Len(s) THEN -1
    ELSE IF CharAt(s, from) = c THEN from
    ELSE FindChar(s, c, from + 1)

----------------------------------------------------------------------------
(* NERParser.parse: pattern \[([^\]]+)\]\(([^)]+)\) *)

NoMatch == [found |-> FALSE]

\* a call that returned (no exception)
NoError == [type |-> "none"]

\* the value of a result variable before the call it records was made
NoOutput == [err |-> [type |-> "unset"]]

\* raise ValueError(msg), msg given by its parts
ValueError(msg) == [type |-> "ValueError", msg |-> msg]

\* the pattern written with `*` in place of `+`
MinGroupLen_star == 1 - 1

\* Smallest number of characters the `+` quantifier of a group consumes.
MinGroupLen == 1

\* One attempt of the pattern anchored at offset s.  [^\]]+ runs to the first
\* "]" after the opening bracket, [^)]+ to the first ")" after "](": a
\* negated class cannot step over its own terminator, so there is one
\* candidate match per anchor.
MatchAt(s, at) ==
    IF at >= Len(s) \/ CharAt(s, at) # "[" THEN NoMatch
    ELSE
      LET p == FindChar(s, "]", at + 1)
      IN  IF p = -1 \/ p - (at + 1) < MinGroupLen THEN NoMatch
          ELSE IF p + 1 >= Len(s) \/ CharAt(s, p + 1) # "(" THEN NoMatch
          ELSE
            LET q == FindChar(s, ")", p + 2)
            IN  IF q = -1 \/ q - (p + 2) < MinGroupLen THEN NoMatch
                ELSE [found  |-> TRUE,
                      start  |-> at,
                      end    |-> q + 1,
                      group1 |-> Slice(s, at + 1, p),
                      group2 |-> Slice(s, p + 2, q)]

\* pattern.search(text): the leftmost match only
FindIter_first(s, from) ==
    IF \E at \in from..(Len(s) - 1) : MatchAt(s, at).found
    THEN <<MatchAt(s, CHOOSE at \in from..(Len(s) - 1) :
                        /\ MatchAt(s, at).found
                        /\ \A b \in from..(at - 1) : ~MatchAt(s, b).found)>>
    ELSE <<>>

\* pattern.finditer(text): leftmost matches, each search resuming where the
\* previous match ended
RECURSIVE FindIter(_, _)
FindIter(s, from) ==
    IF from >= Len(s) THEN <<>>
    ELSE
      LET m == MatchAt(s, from)
      IN  IF m.found THEN <<m>> \o FindIter(s, m.end)
                     ELSE FindIter(s, from + 1)

\* the start taken from the match, an offset in the raw text
EntityStart_raw(clean_text, match) == match.start

\* offset recorded as the start of an entity: the length of the clean text
\* built so far (line 66)
EntityStart(clean_text, match) == Len(clean_text)

\* the loop body without line 63: the text before the match is not copied
ParseStep_skip_gap(s, st, match) ==
    LET start == EntityStart(st.clean_text, match)
        clean2 == st.clean_text \o match.group1
    IN  [clean_text |-> clean2,
         entities   |-> Append(st.entities,
                               [start |-> start, end |-> Len(clean2),
                                label |-> match.group2]),
         last_end   |-> match.end]

\* body of the for loop, lines 61-72, on the state (clean_text, entities,
\* last_end)
ParseStep(s, st, match) ==
    LET clean1 == st.clean_text \o Slice(s, st.last_end, match.start)
        start  == EntityStart(clean1, match)
        clean2 == clean1 \o match.group1
        end    == Len(clean2)
    IN  [clean_text |-> clean2,
         entities   |-> Append(st.entities,
                               [start |-> start, end |-> end,
                                label |-> match.group2]),
         last_end   |-> match.end]

RECURSIVE ParseLoop(_, _, _)
ParseLoop(s, st, matches) ==
    IF matches = <<>> THEN st
    ELSE ParseLoop(s, ParseStep(s, st, Head(matches)), Tail(matches))

\* parse without line 74: the text after the last match is not copied
NERParse_no_tail(s) ==
    LET st == ParseLoop(s,
                        [clean_text |-> <<>>, entities |-> <<>>, last_end |-> 0],
                        FindIter(s, 0))
    IN  [err        |-> NoError,
         clean_text |-> st.clean_text,
         entities   |-> st.entities]

\* NERParser.parse(text).  err is the exception raised, NoError when the call
\* returns.
NERParse(s) ==
    LET st == ParseLoop(s,
                        [clean_text |-> <<>>, entities |-> <<>>, last_end |-> 0],
                        FindIter(s, 0))
    IN  [err        |-> NoError,
         clean_text |-> st.clean_text \o Slice(s, st.last_end, Len(s)),
         entities   |-> st.entities]

----------------------------------------------------------------------------
(* TextCatParser.parse *)

\* characters of the model that Python's \s and str.strip() treat as blank
Whitespace == {" ", "\n"}

\* characters of the model that Python's \w matches
WordChars == {"a", "b", "c", "L", "A", "B", "E", "M", "_"}

Delimiter == <<"-", "-", "-">>

LabelKey == <<"L", "A", "B", "E", "L", ":">>

\* s.startswith(prefix, at)
StartsWithAt(s, prefix, at) ==
    /\ at + Len(prefix) <= Len(s)
    /\ Slice(s, at, at + Len(prefix)) = prefix

\* s.split(sep) for a non-empty sep: the pieces between the non-overlapping
\* occurrences of sep taken left to right
RECURSIVE SplitFrom(_, _, _, _)
SplitFrom(s, sep, piece_start, at) ==
    IF at + Len(sep) > Len(s) THEN <<Slice(s, piece_start, Len(s))>>
    ELSE IF StartsWithAt(s, sep, at)
         THEN <<Slice(s, piece_start, at)>>
              \o SplitFrom(s, sep, at + Len(sep), at + Len(sep))
         ELSE SplitFrom(s, sep, piece_start, at + 1)

Split(s, sep) == SplitFrom(s, sep, 0, 0)

RECURSIVE LStrip(_)
LStrip(s) ==
    IF s # <<>> /\ Head(s) \in Whitespace THEN LStrip(Tail(s)) ELSE s

RECURSIVE RStrip(_)
RStrip(s) ==
    IF s # <<>> /\ s[Len(s)] \in Whitespace
    THEN RStrip(SubSeq(s, 1, Len(s) - 1)) ELSE s

\* only the leading blanks removed: s.lstrip()
Strip_left(s) == LStrip(s)

\* s.strip()
Strip(s) == RStrip(LStrip(s))

\* first offset >= from whose character is not in class, or len(s)
RECURSIVE SkipClass(_, _, _)
SkipClass(s, class, from) ==
    IF from >= Len(s) \/ CharAt(s, from) \notin class THEN from
    ELSE SkipClass(s, class, from + 1)

\* one attempt of LABEL:\s*(\w+) anchored at offset at; \s and \w are
\* disjoint, so the greedy runs are the only candidate
LabelMatchAt(s, at) ==
    IF ~StartsWithAt(s, LabelKey, at) THEN NoMatch
    ELSE
      LET w0 == SkipClass(s, Whitespace, at + Len(LabelKey))
          w1 == SkipClass(s, WordChars, w0)
      IN  IF w1 = w0 THEN NoMatch
          ELSE [found |-> TRUE, start |-> at, end |-> w1,
                group1 |-> Slice(s, w0, w1)]

\* re.search(r"LABEL:\s*(\w+)", s): the match at the leftmost anchor that has one
RECURSIVE LabelSearch(_, _)
LabelSearch(s, from) ==
    IF from >= Len(s) THEN NoMatch
    ELSE
      LET m == LabelMatchAt(s, from)
      IN  IF m.found THEN m ELSE LabelSearch(s, from + 1)

\* the label searched in the whole text instead of the label section
LabelSection_whole(parts) == Strip(parts[1] \o parts[2])

\* the section of the split the label is searched in (line 134)
LabelSection(parts) == Strip(parts[2])

\* TextCatParser.parse(text).  categories is the dict as a set of
\* (name, score) entries; score 1.0 is written 1.
TextCatParse(s) ==
    LET parts == Split(s, Delimiter)
    IN  IF Len(parts) # 2
        THEN [err |-> ValueError(<<"Invalid textcat format: missing '---' delimiter">>)]
        ELSE
          LET m == LabelSearch(LabelSection(parts), 0)
          IN  IF ~m.found
              THEN [err |-> ValueError(<<"Invalid textcat format: missing 'LABEL:' line">>)]
              ELSE [err        |-> NoError,
                    clean_text |-> Strip(parts[1]),
                    categories |-> {[name |-> m.group1, score |-> 1]}]

----------------------------------------------------------------------------
(* Tokenizer: nlp.make_doc and doc.char_span of the blank English pipeline. *)
(* The tokenizer is a library outside the repository; it is modelled by    *)
(* the behaviour the builder relies on: a token is a maximal run of word   *)
(* characters or one punctuation character, blanks separate tokens, and    *)
(* char_span yields a span only for a range that starts at a token start   *)
(* and ends at a token end.                                                *)

IsBlank(c) == c \in Whitespace

IsWord(c) == c \in WordChars

IsPunct(c) == ~IsBlank(c) /\ ~IsWord(c)

\* offsets at which a token of make_doc(s) starts
TokenStarts(s) ==
    {p \in 0..(Len(s) - 1) :
        /\ ~IsBlank(CharAt(s, p))
        /\ \/ p = 0
           \/ IsPunct(CharAt(s, p))
           \/ ~IsWord(CharAt(s, p - 1))}

\* offsets at which a token of make_doc(s) ends
TokenEnds(s) ==
    {p \in 1..Len(s) :
        /\ ~IsBlank(CharAt(s, p - 1))
        /\ \/ p = Len(s)
           \/ IsPunct(CharAt(s, p - 1))
           \/ ~IsWord(CharAt(s, p))}

\* doc.char_span(start, end, label) is not None
CharSpanAligned(s, start, end) ==
    /\ start < end
    /\ start \in TokenStarts(s)
    /\ end \in TokenEnds(s)

----------------------------------------------------------------------------
(* Document builders *)

\* every span kept, whatever char_span returned
AlignedSpans_all(clean_text, entities) == entities

\* lines 96-99: the spans for which char_span returned a span, in order
RECURSIVE AlignedSpans(_, _)
AlignedSpans(clean_text, entities) ==
    IF entities = <<>> THEN <<>>
    ELSE
      LET e == Head(entities)
          rest == AlignedSpans(clean_text, Tail(entities))
      IN  IF CharSpanAligned(clean_text, e.start, e.end)
          THEN <<e>> \o rest
          ELSE rest

\* the setter of doc.ents rejects two spans that share a character
SpansConflict(spans) ==
    \E i, j \in 1..Len(spans) :
        /\ i # j
        /\ spans[i].start < spans[j].end
        /\ spans[j].start < spans[i].end

\* char_span called with alignment_mode="expand": every span widened to the
\* tokens it touches
NERBuild_expand(parsed) ==
    LET s == parsed.clean_text
        Widen(e) ==
            [e EXCEPT
               !.start = CHOOSE p \in 0..e.start :
                            /\ p \in TokenStarts(s) \cup {0}
                            /\ \A q \in (p + 1)..e.start : q \notin TokenStarts(s),
               !.end = CHOOSE p \in e.end..Len(s) :
                          /\ p \in TokenEnds(s) \cup {Len(s)}
                          /\ \A q \in e.end..(p - 1) : q \notin TokenEnds(s)]
        spans == [k \in 1..Len(parsed.entities) |-> Widen(parsed.entities[k])]
    IN  IF SpansConflict(spans)
        THEN [err |-> ValueError(<<"doc.ents: conflicting spans">>)]
        ELSE [err |-> NoError,
              doc |-> [text |-> parsed.clean_text, ents |-> spans, cats |-> {}]]

\* NERDocumentBuilder.build(nlp, parsed_data)
NERBuild(parsed) ==
    LET spans == AlignedSpans(parsed.clean_text, parsed.entities)
    IN  IF SpansConflict(spans)
        THEN [err |-> ValueError(<<"doc.ents: conflicting spans">>)]
        ELSE [err |-> NoError,
              doc |-> [text |-> parsed.clean_text, ents |-> spans, cats |-> {}]]

\* TextCatDocumentBuilder.build(nlp, parsed_data)
TextCatBuild(parsed) ==
    [err |-> NoError,
     doc |-> [text |-> parsed.clean_text, ents |-> <<>>,
              cats |-> parsed.categories]]

----------------------------------------------------------------------------
(* TaskHandler *)

\* the two pairs registered under each other's name
HANDLERS_swapped ==
    [t \in {"ner", "textcat"} |->
        IF t = "textcat"
        THEN [parser |-> "NERParser", builder |-> "NERDocumentBuilder"]
        ELSE [parser |-> "TextCatParser", builder |-> "TextCatDocumentBuilder"]]

\* TaskHandler._HANDLERS
HANDLERS ==
    [t \in {"ner", "textcat"} |->
        IF t = "ner"
        THEN [parser |-> "NERParser", builder |-> "NERDocumentBuilder"]
        ELSE [parser |-> "TextCatParser", builder |-> "TextCatDocumentBuilder"]]

\* TaskHandler.supported_tasks(): the keys in insertion order
SupportedTasks == <<"ner", "textcat">>

\* a message that names the task only
UnsupportedTask_bare(t) == ValueError(<<"Unsupported task: ", t>>)

\* the error of line 190: f"Unsupported task: '{task}'. Supported tasks: {supported}"
UnsupportedTask(t) ==
    ValueError(<<"Unsupported task: ", t, ". Supported tasks: ">> \o SupportedTasks)

\* a lookup that falls back to the NER pair: _HANDLERS.get(task, ner pair)
GetHandler_default(t) ==
    IF t \notin DOMAIN registry
    THEN [err |-> NoError, pair |-> registry["ner"]]
    ELSE [err |-> NoError, pair |-> registry[t]]

\* TaskHandler.get_handler(task)
GetHandler(t) ==
    IF t \notin DOMAIN registry
    THEN [err |-> UnsupportedTask(t)]
    ELSE [err |-> NoError, pair |-> registry[t]]

\* parser_cls.parse(result)
ParserParse(parser_cls, s) ==
    IF parser_cls = "NERParser" THEN NERParse(s) ELSE TextCatParse(s)

\* builder_cls.build(nlp, parsed_data)
BuilderBuild(builder_cls, parsed) ==
    IF builder_cls = "NERDocumentBuilder" THEN NERBuild(parsed)
                                          ELSE TextCatBuild(parsed)

----------------------------------------------------------------------------
(* The completion collaborator and the persisted artifact *)

\* texts llm_client.generate may return
NerGood == <<"a", " ", "[", "b", "]", "(", "L", ")">>
NerTwo == <<"[", "a", "]", "(", "L", ")", " ", "[", "b", " ", "c", "]", "(", "M", ")">>
NerBroken == <<"[", "a", "]", "(", "L">>
CatGood == <<"a", " ", "b", "\n", "-", "-", "-", "\n",
             "L", "A", "B", "E", "L", ":", " ", "M">>
CatNoLabel == <<"a", "-", "-", "-", "b">>
\* a marker whose entity text is the second half of a token
NerMisaligned == <<"a", "[", "b", "]", "(", "L", ")">>

Completions == {NerGood, NerTwo, NerBroken, NerMisaligned, CatGood, CatNoLabel}

GenerationError == [type |-> "GenerationError"]

\* what one call of llm_client.generate can do: return a text or raise
Outcomes ==
    {[err |-> NoError, text |-> t] : t \in Completions}
    \cup {[err |-> GenerationError]}

\* what load_prompt_config returns: the contents rendered from the templates
\* of the task the prompt file names
PromptConfigs ==
    {[user |-> "ner_user.jinja2", system |-> "ner_system.jinja2"],
     [user |-> "textcat_user.jinja2", system |-> "textcat_system.jinja2"]}

\* the 'task' field of the prompt file cfg was rendered from
PromptTask(cfg) == IF cfg.user = "ner_user.jinja2" THEN "ner" ELSE "textcat"

OutputPaths == {"docs.spacy", "train.spacy"}

Tasks == {"ner", "textcat", "sentiment", "NER", ""}

\* range(self.n_samples + 1)
LoopContinues_one_more(k, n) == k < n + 1

\* range(self.n_samples) has an iteration left after k iterations
LoopContinues(k, n) == k < n

\* the two contents passed in the wrong order
GenerateArgs_swapped(cfg) ==
    [prompt |-> cfg.system, system_prompt |-> cfg.user]

\* the arguments of the generate call, lines 257-260
GenerateArgs(cfg) ==
    [prompt |-> cfg.user, system_prompt |-> cfg.system]

\* a collection that puts the newest document first
DocBinAdd_front(docs, doc) == <<doc>> \o docs

\* doc_bin.add(doc)
DocBinAdd(docs, doc) == Append(docs, doc)

\* doc_bin.to_disk(path): the call as recorded
ToDisk(path, docs) == [path |-> path, docs |-> docs]

----------------------------------------------------------------------------
(* DataGenerator.run *)

\* the exception is caught by a handler that still writes the collection
Raise_persist(e) ==
    /\ pc' = "failed"
    /\ error' = e
    /\ disk' = Append(disk, ToDisk(output_path, doc_bin))

\* an exception leaves run(): nothing after the raising statement runs
Raise(e) ==
    /\ pc' = "failed"
    /\ error' = e
    /\ disk' = disk

\* the parser and the builder fetched by a lookup each
Resolve_twice ==
    /\ pc = "start"
    /\ lookups' = lookups \o <<task, task>>
    /\ LET h == GetHandler(task)
       IN  IF h.err # NoError
           THEN /\ Raise(h.err)
                /\ UNCHANGED <<handler, doc_bin>>
           ELSE /\ handler' = h.pair
                /\ doc_bin' = <<>>
                /\ pc' = "loop"
                /\ UNCHANGED <<error, disk>>
    /\ UNCHANGED <<task, registry, n_samples, output_path, prompt_config, rnd, result,
                   parsed_data, calls, parseVars, auxVars>>

\* the handler looked up by the task of the prompt configuration
Resolve_by_prompt ==
    /\ pc = "start"
    /\ lookups' = Append(lookups, task)
    /\ LET h == GetHandler(PromptTask(prompt_config))
       IN  IF h.err # NoError
           THEN /\ Raise(h.err)
                /\ UNCHANGED <<handler, doc_bin>>
           ELSE /\ handler' = h.pair
                /\ doc_bin' = <<>>
                /\ pc' = "loop"
                /\ UNCHANGED <<error, disk>>
    /\ UNCHANGED <<task, registry, n_samples, output_path, prompt_config, rnd, result,
                   parsed_data, calls, parseVars, auxVars>>

\* lines 250-254
Resolve ==
    /\ pc = "start"
    /\ lookups' = Append(lookups, task)
    /\ LET h == GetHandler(task)
       IN  IF h.err # NoError
           THEN /\ Raise(h.err)
                /\ UNCHANGED <<handler, doc_bin>>
           ELSE /\ handler' = h.pair
                /\ doc_bin' = <<>>
                /\ pc' = "loop"
                /\ UNCHANGED <<error, disk>>
    /\ UNCHANGED <<task, registry, n_samples, output_path, prompt_config, rnd, result,
                   parsed_data, calls, parseVars, auxVars>>

\* the calls of all rounds made first, parsing moved out of the loop
Generate_batch ==
    /\ pc = "loop"
    /\ LoopContinues(rnd, n_samples)
    /\ rnd' = rnd + 1
    /\ \E out \in Outcomes :
         /\ calls' = Append(calls, [args |-> GenerateArgs(prompt_config),
                                    out  |-> out])
         /\ IF out.err # NoError
            THEN /\ Raise(out.err)
                 /\ UNCHANGED result
            ELSE /\ result' = out.text
                 /\ pc' = IF LoopContinues(rnd + 1, n_samples) THEN "loop" ELSE "parse"
                 /\ UNCHANGED <<error, disk>>
    /\ UNCHANGED <<lookups, task, registry, n_samples, output_path, prompt_config, handler,
                   parsed_data, doc_bin, parseVars, auxVars>>

\* lines 256-260: the next iteration starts and calls the collaborator
Generate ==
    /\ pc = "loop"
    /\ LoopContinues(rnd, n_samples)
    /\ rnd' = rnd + 1
    /\ \E out \in Outcomes :
         /\ calls' = Append(calls, [args |-> GenerateArgs(prompt_config),
                                    out  |-> out])
         /\ IF out.err # NoError
            THEN /\ Raise(out.err)
                 /\ UNCHANGED result
            ELSE /\ result' = out.text
                 /\ pc' = "parse"
                 /\ UNCHANGED <<error, disk>>
    /\ UNCHANGED <<lookups, task, registry, n_samples, output_path, prompt_config, handler,
                   parsed_data, doc_bin, parseVars, auxVars>>

\* the failed iteration is skipped and the loop goes on
Parse_skip ==
    /\ pc = "parse"
    /\ LET p == ParserParse(handler.parser, result)
       IN  IF p.err # NoError
           THEN /\ error' = p.err
                /\ pc' = "loop"
                /\ UNCHANGED <<parsed_data, disk>>
           ELSE /\ parsed_data' = p
                /\ pc' = "build"
                /\ UNCHANGED <<error, disk>>
    /\ UNCHANGED <<lookups, task, registry, n_samples, output_path, prompt_config, rnd, handler,
                   result, doc_bin, calls, parseVars, auxVars>>

\* line 263
Parse ==
    /\ pc = "parse"
    /\ LET p == ParserParse(handler.parser, result)
       IN  IF p.err # NoError
           THEN /\ Raise(p.err)
                /\ UNCHANGED parsed_data
           ELSE /\ parsed_data' = p
                /\ pc' = "build"
                /\ UNCHANGED <<error, disk>>
    /\ UNCHANGED <<lookups, task, registry, n_samples, output_path, prompt_config, rnd, handler,
                   result, doc_bin, calls, parseVars, auxVars>>

\* a document without annotations is not added
Build_skip_empty ==
    /\ pc = "build"
    /\ LET b == BuilderBuild(handler.builder, parsed_data)
       IN  IF b.err # NoError
           THEN /\ Raise(b.err)
                /\ UNCHANGED doc_bin
           ELSE /\ doc_bin' = IF b.doc.ents = <<>> /\ b.doc.cats = {}
                              THEN doc_bin
                              ELSE DocBinAdd(doc_bin, b.doc)
                /\ pc' = "loop"
                /\ UNCHANGED <<error, disk>>
    /\ UNCHANGED <<lookups, task, registry, n_samples, output_path, prompt_config, rnd,
                   handler, result, parsed_data, calls, parseVars, auxVars>>

\* lines 266-268
Build ==
    /\ pc = "build"
    /\ LET b == BuilderBuild(handler.builder, parsed_data)
       IN  IF b.err # NoError
           THEN /\ Raise(b.err)
                /\ UNCHANGED doc_bin
           ELSE /\ doc_bin' = DocBinAdd(doc_bin, b.doc)
                /\ pc' = "loop"
                /\ UNCHANGED <<error, disk>>
    /\ UNCHANGED <<lookups, task, registry, n_samples, output_path, prompt_config, rnd, handler,
                   result, parsed_data, calls, parseVars, auxVars>>

\* to_disk indented into the loop: written after every iteration
Persist_in_loop ==
    /\ pc = "loop"
    /\ rnd >= 1
    /\ Len(disk) < rnd
    /\ disk' = Append(disk, ToDisk(output_path, doc_bin))
    /\ pc' = IF LoopContinues(rnd, n_samples) THEN "loop" ELSE "done"
    /\ UNCHANGED <<lookups, task, registry, n_samples, output_path, prompt_config, rnd, handler,
                   result, parsed_data, doc_bin, calls, error, parseVars, auxVars>>

\* line 270, reached when the loop is exhausted
Persist ==
    /\ pc = "loop"
    /\ ~LoopContinues(rnd, n_samples)
    /\ disk' = Append(disk, ToDisk(output_path, doc_bin))
    /\ pc' = "done"
    /\ UNCHANGED <<lookups, task, registry, n_samples, output_path, prompt_config, rnd, handler,
                   result, parsed_data, doc_bin, calls, error, parseVars, auxVars>>

\* Python's None
None == "<None>"

(* Values as yaml.safe_load returns them.  A mapping keeps its entries in   *)
(* insertion order, as a Python dict does.                                 *)
VStr(chars) == [kind |-> "str", chars |-> chars]
VInt(n) == [kind |-> "int", num |-> n]
VFloat(tenths) == [kind |-> "float", tenths |-> tenths]
VNone == [kind |-> "none"]
VList(items) == [kind |-> "list", items |-> items]
VDict(entries) == [kind |-> "dict", entries |-> entries]
Entry(k, v) == [key |-> k, val |-> v]

\* an environment without variables
EmptyEnv == [n \in {} |-> <<>>]

\* _expand_env_vars is not being called
EnvIdle ==
    /\ environ = EmptyEnv
    /\ env_in = VNone
    /\ env_depth = 0
    /\ env_out = NoOutput
    /\ epc = "input"

\* no LLMClient is in use
LLMIdle ==
    /\ llm_client = [model |-> "gpt-4o-mini", api_key |-> None,
                     api_base |-> None, max_tokens |-> 1024]
    /\ llm_args = [prompt |-> "", system_prompt |-> None]
    /\ llm_resp = NoOutput
    /\ llm_ret = NoOutput
    /\ completion_calls = <<>>
    /\ gen_count = 0
    /\ lpc = "idle"

\* no configuration file is being loaded
ConfigIdle ==
    /\ cfg_raw = VNone
    /\ output_folder = None
    /\ cfg_out = NoOutput
    /\ files = {}
    /\ cpc = "input"

\* no command is running and no DataValidator exists
CommandsIdle ==
    /\ cli_pc = "idle"
    /\ exit_code = None
    /\ echoed = <<>>
    /\ dataset = <<>>
    /\ task_arg = VNone
    /\ vtask = VNone
    /\ verr = NoError
    /\ reports = {}
    /\ vpc = "idle"

AuxIdle == LLMIdle /\ EnvIdle /\ ConfigIdle /\ CommandsIdle

\* no input of the parsers is under construction
ParseIdle ==
    /\ text = <<>>
    /\ npieces = 0
    /\ ppc = "input"
    /\ ner_out = NERParse(<<>>)
    /\ cat_out = NoOutput
    /\ doc_out = NoOutput

\* the state after DataGenerator.__init__ (lines 236-241), before run()
Init ==
    /\ task \in Tasks
    /\ registry = HANDLERS
    /\ n_samples \in 0..MaxSamples
    /\ output_path \in OutputPaths
    /\ prompt_config \in PromptConfigs
    /\ pc = "start"
    /\ rnd = 0
    /\ handler = [parser |-> "unbound", builder |-> "unbound"]
    /\ result = <<>>
    /\ parsed_data = NERParse(<<>>)
    /\ doc_bin = <<>>
    /\ calls = <<>>
    /\ disk = <<>>
    /\ error = NoError
    /\ lookups = <<>>
    /\ ParseIdle
    /\ AuxIdle

Next == Resolve \/ Generate \/ Parse \/ Build \/ Persist

Spec == Init /\ [][Next]_vars

\* a step of run(): the thread leaves its position.  Every step of Next is
\* one, and one can be taken exactly when run() has neither returned nor
\* raised.
RunStep == pc \notin {"done", "failed"} /\ pc' \in {"loop", "parse", "build", "done", "failed"} \ {pc}

\* run() is one thread that runs to its end: a step that can be taken is taken
SpecLive == Spec /\ WF_pc(RunStep)

----------------------------------------------------------------------------
(* The parsers on their own: an input string is put together from pieces   *)
(* and NERParser.parse is applied to it.                                   *)

Marker == <<"[", "a", "]", "(", "L", ")">>

Marker2 == <<"[", "a", " ", "a", "]", "(", "M", ")">>

\* the single characters that matter to the pattern, a letter, a blank, the
\* middle of a marker and two whole markers
Pieces ==
    {<<"[">>, <<"]">>, <<"(">>, <<")">>, <<"a">>, <<" ">>, <<"]", "(">>,
     Marker, Marker2}

\* no DataGenerator is running
RunIdle ==
    /\ task = "ner"
    /\ registry = HANDLERS
    /\ n_samples = 0
    /\ output_path = "docs.spacy"
    /\ prompt_config = [user |-> "ner_user.jinja2", system |-> "ner_system.jinja2"]
    /\ pc = "start"
    /\ rnd = 0
    /\ handler = [parser |-> "unbound", builder |-> "unbound"]
    /\ result = <<>>
    /\ parsed_data = NERParse(<<>>)
    /\ doc_bin = <<>>
    /\ calls = <<>>
    /\ disk = <<>>
    /\ error = NoError
    /\ lookups = <<>>

\* the caller extends the input by one piece
Extend ==
    /\ ppc = "input"
    /\ npieces < MaxPieces
    /\ \E piece \in Pieces : text' = text \o piece
    /\ npieces' = npieces + 1
    /\ UNCHANGED <<ppc, ner_out, cat_out, doc_out, runVars, auxVars>>

\* entities = NERParser.parse(text)
ApplyNERParse ==
    /\ ppc = "input"
    /\ ner_out' = NERParse(text)
    /\ ppc' = "parsed"
    /\ UNCHANGED <<text, npieces, cat_out, doc_out, runVars, auxVars>>

\* doc = NERDocumentBuilder.build(nlp, (clean_text, entities))
ApplyNERBuild ==
    /\ ppc = "parsed"
    /\ doc_out' = NERBuild(ner_out)
    /\ ppc' = "built"
    /\ UNCHANGED <<text, npieces, ner_out, cat_out, runVars, auxVars>>

InitParse == RunIdle /\ ParseIdle /\ AuxIdle

NextParse == Extend \/ ApplyNERParse \/ ApplyNERBuild

SpecParse == InitParse /\ [][NextParse]_vars

----------------------------------------------------------------------------
(* TextCatParser.parse on its own *)

\* the delimiter, the label key, a line break, a word character and a dash
CatPieces ==
    {Delimiter, LabelKey, <<"\n">>, <<"a">>, <<"-">>}

\* the caller extends the input by one piece
ExtendCat ==
    /\ ppc = "input"
    /\ npieces < MaxCatPieces
    /\ \E piece \in CatPieces : text' = text \o piece
    /\ npieces' = npieces + 1
    /\ UNCHANGED <<ppc, ner_out, cat_out, doc_out, runVars, auxVars>>

\* cat_out = TextCatParser.parse(text)
ApplyTextCatParse ==
    /\ ppc = "input"
    /\ cat_out' = TextCatParse(text)
    /\ ppc' = "parsed"
    /\ UNCHANGED <<text, npieces, ner_out, doc_out, runVars, auxVars>>

NextCat == ExtendCat \/ ApplyTextCatParse

SpecCat == InitParse /\ [][NextCat]_vars

----------------------------------------------------------------------------
(* LLMClient.generate (src/spacylize/llm.py) *)

\* Python truth value of an optional string
Truthy(v) == v # None /\ v # ""

\* lines 56-59
Messages(prompt, system_prompt) ==
    (IF Truthy(system_prompt)
     THEN <<[role |-> "system", content |-> system_prompt]>>
     ELSE <<>>)
    \o <<[role |-> "user", content |-> prompt]>>

\* lines 61-71: the keyword arguments of the completion call
CompletionKwargs(client, prompt, system_prompt) ==
    LET base == [model      |-> client.model,
                 messages   |-> Messages(prompt, system_prompt),
                 max_tokens |-> client.max_tokens]
        key  == IF Truthy(client.api_key)
                THEN base @@ ("api_key" :> client.api_key) ELSE base
    IN  IF Truthy(client.api_base)
        THEN key @@ ("api_base" :> client.api_base) ELSE key

\* line 75: response["choices"][0]["message"]["content"]
FirstChoiceContent(response) == response.choices[1].message.content

LLMClients ==
    [model      : {"gpt-4o-mini"},
     api_key    : {None, "", "test-key"},
     api_base   : {None, "http://localhost:11434"},
     max_tokens : {100, 1024}]

LLMArgs ==
    [prompt        : {"Hello", "Tell me a joke."},
     system_prompt : {None, "", "You are a funny assistant."}]

\* what completion(...) may do: return a response with one or more choices,
\* or raise
CompletionOutcomes ==
    {[err |-> NoError,
      choices |-> <<[message |-> [content |-> "This is a mocked response."]]>>],
     [err |-> NoError,
      choices |-> <<[message |-> [content |-> "first"]],
                    [message |-> [content |-> "second"]]>>],
     [err |-> GenerationError]}

\* LLMClient.generate(prompt, system_prompt), lines 46-75
LLMGenerate ==
    /\ lpc \in {"idle", "returned"}
    /\ gen_count < MaxLLMCalls
    /\ gen_count' = gen_count + 1
    /\ \E a \in LLMArgs, r \in CompletionOutcomes :
         /\ llm_args' = a
         /\ completion_calls' =
              Append(completion_calls,
                     CompletionKwargs(llm_client, a.prompt, a.system_prompt))
         /\ llm_resp' = r
         /\ llm_ret' = IF r.err # NoError
                       THEN [err |-> r.err]
                       ELSE [err |-> NoError, text |-> FirstChoiceContent(r)]
    /\ lpc' = "returned"
    /\ UNCHANGED <<llm_client, runVars, parseVars, envVars, cfgVars, cmdVars>>

\* the state after LLMClient.__init__, lines 41-44
InitLLM ==
    /\ RunIdle
    /\ ParseIdle
    /\ llm_client \in LLMClients
    /\ llm_args = [prompt |-> "", system_prompt |-> None]
    /\ llm_resp = NoOutput
    /\ llm_ret = NoOutput
    /\ completion_calls = <<>>
    /\ gen_count = 0
    /\ lpc = "idle"
    /\ EnvIdle
    /\ ConfigIdle
    /\ CommandsIdle

NextLLM == LLMGenerate

SpecLLM == InitLLM /\ [][NextLLM]_vars

----------------------------------------------------------------------------
(* _expand_env_vars (src/spacylize/llm_config.py lines 37-64; the copy in   *)
(* src/spacylize/prompt_config.py lines 160-187 is the same text)          *)

\* _ENV_VAR_PATTERN.search(s): the pattern found anywhere in s
EnvVarMatch_search(s) ==
    IF \E i \in 0..(Len(s) - 1) :
          /\ StartsWithAt(s, <<"$", "{">>, i)
          /\ FindChar(s, "}", i + 2) > i + 2
    THEN LET i == CHOOSE i \in 0..(Len(s) - 1) :
                    /\ StartsWithAt(s, <<"$", "{">>, i)
                    /\ FindChar(s, "}", i + 2) > i + 2
         IN  [found |-> TRUE, group1 |-> Slice(s, i + 2, FindChar(s, "}", i + 2))]
    ELSE NoMatch

\* _ENV_VAR_PATTERN.fullmatch(s) for \$\{([^}]+)\}: "${", the run of
\* characters other than "}", then "}" which must be the last character
EnvVarMatch(s) ==
    IF ~StartsWithAt(s, <<"$", "{">>, 0) THEN NoMatch
    ELSE
      LET p == FindChar(s, "}", 2)
      IN  IF p = -1 \/ p - 2 < 1 \/ p + 1 # Len(s) THEN NoMatch
          ELSE [found |-> TRUE, group1 |-> Slice(s, 2, p)]

\* os.getenv(name)
Getenv(name) ==
    IF name \in DOMAIN environ THEN VStr(environ[name]) ELSE VNone

RECURSIVE ExpandEnvVars(_)
ExpandEntries(entries) ==
    [i \in 1..Len(entries) |->
        Entry(entries[i].key, ExpandEnvVars(entries[i].val))]

ExpandItems(items) == [i \in 1..Len(items) |-> ExpandEnvVars(items[i])]

\* _expand_env_vars(value)
ExpandEnvVars(v) ==
    IF v.kind = "str"
    THEN LET m == EnvVarMatch(v.chars)
         IN  IF m.found THEN Getenv(m.group1) ELSE v
    ELSE IF v.kind = "dict" THEN VDict(ExpandEntries(v.entries))
    ELSE IF v.kind = "list" THEN VList(ExpandItems(v.items))
    ELSE v

RefA == <<"$", "{", "A", "}">>
RefB == <<"$", "{", "B", "}">>

\* the leaves a configuration value is made of
EnvLeaves ==
    {VStr(RefA), VStr(RefB), VStr(<<"x">> \o RefA), VStr(RefA \o <<"x">>),
     VStr(RefA \o RefB), VStr(<<"$", "{", "}">>), VStr(<<"$", "{", "A">>),
     VStr(<<"a">>), VInt(1), VNone}

\* environments: A set or not, B never set
Environs == {EmptyEnv, [n \in {<<"A">>} |-> <<"n", "e", "r">>]}

\* the caller nests the value in a sequence or a mapping, next to a leaf
EnvWrap ==
    /\ epc = "input"
    /\ env_depth < MaxDepth
    /\ \E leaf \in EnvLeaves :
         env_in' \in {VList(<<env_in>>),
                      VList(<<leaf, env_in>>),
                      VDict(<<Entry("${A}", env_in), Entry("name", leaf)>>)}
    /\ env_depth' = env_depth + 1
    /\ UNCHANGED <<environ, env_out, epc, runVars, parseVars, llmVars, cfgVars,
                   cmdVars>>

\* env_out = _expand_env_vars(env_in)
ApplyExpand ==
    /\ epc = "input"
    /\ env_out' = ExpandEnvVars(env_in)
    /\ epc' = "expanded"
    /\ UNCHANGED <<environ, env_in, env_depth, runVars, parseVars, llmVars,
                   cfgVars, cmdVars>>

InitEnv ==
    /\ RunIdle
    /\ ParseIdle
    /\ LLMIdle
    /\ ConfigIdle
    /\ CommandsIdle
    /\ environ \in Environs
    /\ env_in \in EnvLeaves
    /\ env_depth = 0
    /\ env_out = NoOutput
    /\ epc = "input"

NextEnv == EnvWrap \/ ApplyExpand

SpecEnv == InitEnv /\ [][NextEnv]_vars

----------------------------------------------------------------------------
(* Configuration loading: src/spacylize/llm_config.py (LLMConfig,           *)
(* load_llm_config) and src/spacylize/prompt_config.py (the structured     *)
(* schemas, _render_structured_config, load_prompt_config).  Validation    *)
(* is pydantic's: each schema is translated field by field into the set    *)
(* of errors a ValidationError would carry.                                *)

RuntimeError(msg) == [type |-> "RuntimeError", msg |-> msg]
AttributeError == [type |-> "AttributeError"]

\* a key the mapping does not have
Absent == [kind |-> "absent"]

Keys(d) == {d.entries[i].key : i \in 1..Len(d.entries)}

\* d[k], Absent when d has no key k
Get(d, k) ==
    IF k \in Keys(d)
    THEN d.entries[CHOOSE i \in 1..Len(d.entries) : d.entries[i].key = k].val
    ELSE Absent

\* dict.get(k): None when d has no key k
DictGet(d, k) == IF k \in Keys(d) THEN Get(d, k) ELSE VNone

\* bool(value)
ValueTruthy(v) ==
    IF v.kind = "none" THEN FALSE
    ELSE IF v.kind = "str" THEN Len(v.chars) > 0
    ELSE IF v.kind = "int" THEN v.num # 0
    ELSE IF v.kind = "float" THEN v.tenths # 0
    ELSE IF v.kind = "list" THEN Len(v.items) > 0
    ELSE Len(v.entries) > 0

Digits == <<"0", "1", "2", "3", "4", "5", "6", "7", "8", "9">>

IsDigits(chars) ==
    /\ Len(chars) > 0
    /\ \A i \in 1..Len(chars) : \E n \in 1..Len(Digits) : Digits[n] = chars[i]

DigitVal(c) == (CHOOSE n \in 1..Len(Digits) : Digits[n] = c) - 1

\* int(chars) for a string of digits
RECURSIVE StrToInt(_)
StrToInt(chars) ==
    IF Len(chars) = 0 THEN 0
    ELSE StrToInt(SubSeq(chars, 1, Len(chars) - 1)) * Len(Digits)
           + DigitVal(chars[Len(chars)])

\* str(n) for n >= 0
RECURSIVE IntToStr(_)
IntToStr(n) ==
    IF n < Len(Digits) THEN <<Digits[n + 1]>>
    ELSE IntToStr(n \div Len(Digits)) \o <<Digits[(n % Len(Digits)) + 1]>>

\* f"{value}" of a task value
Format(v) ==
    IF v.kind = "str" THEN v.chars
    ELSE IF v.kind = "int" THEN IntToStr(v.num)
    ELSE <<v.kind>>

Err(loc, type) == [loc |-> loc, type |-> type]

\* field: str (required)
CheckStr(d, k) ==
    LET v == Get(d, k)
    IN  IF v.kind = "absent" THEN {Err(k, "missing")}
        ELSE IF v.kind # "str" THEN {Err(k, "string_type")}
        ELSE {}

\* field: Optional[str] with a default
CheckOptStr(d, k) ==
    LET v == Get(d, k)
    IN  IF v.kind \in {"absent", "none", "str"} THEN {}
        ELSE {Err(k, "string_type")}

\* field: int with a default; a string of digits or a whole float is coerced
CheckInt(d, k) ==
    LET v == Get(d, k)
    IN  IF v.kind \in {"absent", "int"} THEN {}
        ELSE IF v.kind = "str"
        THEN IF IsDigits(v.chars) THEN {} ELSE {Err(k, "int_parsing")}
        ELSE IF v.kind = "float"
        THEN IF v.tenths % 10 = 0 THEN {} ELSE {Err(k, "int_from_float")}
        ELSE {Err(k, "int_type")}

\* the value of a float field in tenths
Tenths(v) ==
    IF v.kind = "float" THEN v.tenths
    ELSE IF v.kind = "int" THEN v.num * 10
    ELSE StrToInt(v.chars) * 10

\* field: Optional[float] = Field(default, ge=0.0, le=1.0)
CheckOptFloat(d, k) ==
    LET v == Get(d, k)
    IN  IF v.kind \in {"absent", "none"} THEN {}
        ELSE IF v.kind \in {"list", "dict"} THEN {Err(k, "float_type")}
        ELSE IF v.kind = "str" /\ ~IsDigits(v.chars) THEN {Err(k, "float_parsing")}
        ELSE IF Tenths(v) < 0 THEN {Err(k, "greater_than_equal")}
        ELSE IF Tenths(v) > 10 THEN {Err(k, "less_than_equal")}
        ELSE {}

\* the items of a List[str]
ItemErrors(k, v) ==
    IF \E i \in 1..Len(v.items) : v.items[i].kind # "str"
    THEN {Err(k, "string_type")} ELSE {}

\* field: List[str] = Field(..., min_length=n)
CheckListStr(d, k, min_length) ==
    LET v == Get(d, k)
    IN  IF v.kind = "absent" THEN {Err(k, "missing")}
        ELSE IF v.kind # "list" THEN {Err(k, "list_type")}
        ELSE IF Len(v.items) < min_length THEN {Err(k, "too_short")}
        ELSE ItemErrors(k, v)

\* field: Optional[List[str]] = []
CheckOptListStr(d, k) ==
    LET v == Get(d, k)
    IN  IF v.kind \in {"absent", "none"} THEN {}
        ELSE IF v.kind # "list" THEN {Err(k, "list_type")}
        ELSE ItemErrors(k, v)

\* the errors of a nested model with the required str fields req and the
\* Optional[str] fields opt
ModelErrors(k, v, req, opt) ==
    IF v.kind # "dict" THEN {Err(k, "model_type")}
    ELSE UNION ({CheckStr(v, f) : f \in req} \cup {CheckOptStr(v, f) : f \in opt})

\* field: List[Model] = Field(..., min_length=n)
CheckListModel(d, k, min_length, req, opt) ==
    LET v == Get(d, k)
    IN  IF v.kind = "absent" THEN {Err(k, "missing")}
        ELSE IF v.kind # "list" THEN {Err(k, "list_type")}
        ELSE IF Len(v.items) < min_length THEN {Err(k, "too_short")}
        ELSE UNION {ModelErrors(k, v.items[i], req, opt) : i \in 1..Len(v.items)}

\* field: Optional[List[Model]] = []
CheckOptListModel(d, k, req, opt) ==
    LET v == Get(d, k)
    IN  IF v.kind \in {"absent", "none"} THEN {}
        ELSE IF v.kind # "list" THEN {Err(k, "list_type")}
        ELSE UNION {ModelErrors(k, v.items[i], req, opt) : i \in 1..Len(v.items)}

\* a schema without model_config: pydantic ignores the keys it does not know
ExtraForbidden_ignore(d, fields) == {k \in Keys(d) : FALSE}

\* model_config = {"extra": "forbid"}
ExtraForbidden(d, fields) == {Err(k, "extra_forbidden") : k \in Keys(d) \ fields}

\* the value of a field, its default when the mapping lacks it
FieldOr(d, k, default) == IF k \in Keys(d) THEN Get(d, k) ELSE default

\* an int field after coercion
AsInt(v) ==
    IF v.kind = "str" THEN VInt(StrToInt(v.chars))
    ELSE IF v.kind = "float" THEN VInt(v.tenths \div 10)
    ELSE v

\* an Optional[float] field after coercion
AsFloat(v) == IF v.kind = "none" THEN v ELSE VFloat(Tenths(v))

LLMConfigFields == {"model", "api_key", "api_base", "max_tokens"}

DefaultMaxTokens == 1024

\* the errors of LLMConfig.model_validate(d)
LLMConfigErrors(d) ==
    IF d.kind # "dict" THEN {Err("", "model_type")}
    ELSE CheckStr(d, "model") \cup CheckOptStr(d, "api_key")
           \cup CheckOptStr(d, "api_base") \cup CheckInt(d, "max_tokens")
           \cup ExtraForbidden(d, LLMConfigFields)

\* the LLMConfig a valid mapping gives
LLMConfig(d) ==
    [model      |-> Get(d, "model"),
     api_key    |-> FieldOr(d, "api_key", VNone),
     api_base   |-> FieldOr(d, "api_base", VNone),
     max_tokens |-> AsInt(FieldOr(d, "max_tokens", VInt(DefaultMaxTokens)))]

StructuredFields ==
    {"task", "domain", "tone", "length", "language", "temperature",
     "constraints", "examples"}

\* the errors of the fields both structured schemas have
CommonErrors(d) ==
    CheckStr(d, "domain") \cup CheckOptStr(d, "tone")
      \cup CheckOptStr(d, "length") \cup CheckOptStr(d, "language")
      \cup CheckOptFloat(d, "temperature") \cup CheckOptListStr(d, "constraints")

\* the errors of NERStructuredConfig.model_validate(d), d a mapping with
\* task "ner"
NERConfigErrors(d) ==
    CheckListStr(d, "entities", 1) \cup CommonErrors(d)
      \cup CheckOptListModel(d, "examples", {"text"}, {"explanation"})

\* the errors of TextCatStructuredConfig.model_validate(d), d a mapping with
\* task "textcat"
TextCatConfigErrors(d) ==
    CheckListModel(d, "categories", 2, {"name", "description"}, {})
      \cup CommonErrors(d)
      \cup CheckOptListModel(d, "examples", {"text", "category"}, {})

Professional == <<"p", "r", "o", "f", "e", "s", "s", "i", "o", "n", "a", "l">>
NERLength == <<"1", "-", "2", " ", "p", "a", "r", "a", "g", "r", "a", "p", "h", "s">>
TextCatLength == <<"2", "-", "3", " ", "s", "e", "n", "t", "e", "n", "c", "e", "s">>
English == <<"e", "n">>
DefaultTemperature == 7

\* config.model_dump() of the validated structured config: the schema's
\* fields with their defaults, without the keys the schema does not know
StructuredConfig(d, listField, length) ==
    [task        |-> Get(d, "task"),
     items       |-> [field |-> listField, val |-> Get(d, listField)],
     domain      |-> Get(d, "domain"),
     tone        |-> FieldOr(d, "tone", VStr(Professional)),
     length      |-> FieldOr(d, "length", VStr(length)),
     language    |-> FieldOr(d, "language", VStr(English)),
     temperature |-> AsFloat(FieldOr(d, "temperature", VFloat(DefaultTemperature))),
     constraints |-> FieldOr(d, "constraints", VList(<<>>)),
     examples    |-> FieldOr(d, "examples", VList(<<>>))]

TaskNER == <<"n", "e", "r">>
TaskTextCat == <<"t", "e", "x", "t", "c", "a", "t">>

\* TemplateRegistry._TEMPLATES: the system and user template files of a task
TemplateFiles(name) ==
    IF name = TaskNER
    THEN [system |-> "ner_system.jinja2", user |-> "ner_user.jinja2"]
    ELSE [system |-> "textcat_system.jinja2", user |-> "textcat_user.jinja2"]

\* _render_structured_config(config): each prompt is its template rendered
\* with the dumped config
RenderStructuredConfig(config) ==
    [system |-> [role |-> "system",
                 content |-> [template |-> TemplateFiles(config.task.chars).system,
                              config |-> config]],
     user   |-> [role |-> "user",
                 content |-> [template |-> TemplateFiles(config.task.chars).user,
                              config |-> config]]]

\* except ValidationError left out: the validation error reaches the caller
WrapValidation_raw(head, errors) == [type |-> "ValidationError", msg |-> <<head, errors>>]

\* except ValidationError as e: raise RuntimeError(f"<head>\n{e}")
WrapValidation(head, errors) == RuntimeError(<<head, errors>>)

\* the files load_prompt_config writes into folder
RenderedFiles(folder, rendered) ==
    {[folder |-> folder, name |-> "system_prompt.txt",
      content |-> rendered.system.content],
     [folder |-> folder, name |-> "user_prompt.txt",
      content |-> rendered.user.content]}

\* load_llm_config(path)
LoadLLMConfig ==
    /\ cpc = "input"
    /\ LET expanded == ExpandEnvVars(cfg_raw)
           errors == LLMConfigErrors(expanded)
       IN  cfg_out' =
             IF errors # {}
             THEN [err |-> WrapValidation("Invalid LLM configuration:", errors)]
             ELSE [err |-> NoError, value |-> LLMConfig(expanded)]
    /\ cpc' = "llm_loaded"
    /\ UNCHANGED <<cfg_raw, output_folder, files, runVars, parseVars, llmVars,
                   envVars, cmdVars>>

\* the structured config validated, rendered, written and returned
LoadValid(config) ==
    LET rendered == RenderStructuredConfig(config)
    IN  /\ files' = IF Truthy(output_folder)
                    THEN files \cup RenderedFiles(output_folder, rendered)
                    ELSE files
        /\ cfg_out' = [err |-> NoError, value |-> rendered]

LoadFailed(err) ==
    /\ cfg_out' = [err |-> err]
    /\ UNCHANGED files

\* load_prompt_config(path, output_folder)
LoadPromptConfig ==
    /\ cpc = "input"
    /\ LET expanded == ExpandEnvVars(cfg_raw)
       IN  IF expanded.kind # "dict" THEN LoadFailed(AttributeError)
           ELSE
             LET task_value == DictGet(expanded, "task")
             IN  IF ~ValueTruthy(task_value)
                 THEN LoadFailed(RuntimeError(
                        <<"Missing 'task' field in config. Must be 'ner' or 'textcat'.">>))
                 ELSE IF task_value.kind = "str" /\ task_value.chars = TaskNER
                 THEN IF NERConfigErrors(expanded) # {}
                      THEN LoadFailed(WrapValidation("Invalid structured config:",
                                                     NERConfigErrors(expanded)))
                      ELSE LoadValid(StructuredConfig(expanded, "entities", NERLength))
                 ELSE IF task_value.kind = "str" /\ task_value.chars = TaskTextCat
                 THEN IF TextCatConfigErrors(expanded) # {}
                      THEN LoadFailed(WrapValidation("Invalid structured config:",
                                                     TextCatConfigErrors(expanded)))
                      ELSE LoadValid(StructuredConfig(expanded, "categories",
                                                      TextCatLength))
                 ELSE LoadFailed(RuntimeError(
                        <<"Unsupported task: ", Format(task_value),
                          ". Must be 'ner' or 'textcat'.">>))
    /\ cpc' = "prompt_loaded"
    /\ UNCHANGED <<cfg_raw, output_folder, runVars, parseVars, llmVars, envVars,
                   cmdVars>>

\* the entry of an optional key
OptEntry(k, v) == IF v.kind = "absent" THEN <<>> ELSE <<Entry(k, v)>>

\* an unset variable
RefKey == <<"$", "{", "K", "}">>

\* LLM configuration files
LLMRaws ==
    {VDict(OptEntry("model", m) \o OptEntry("api_key", k) \o OptEntry("api_base", b)
             \o OptEntry("max_tokens", t) \o OptEntry("temperature", x)) :
       m \in {Absent, VStr(<<"g", "p", "t">>), VInt(1), VStr(RefA)},
       k \in {Absent, VNone, VStr(RefKey)},
       b \in {Absent, VStr(<<"u">>)},
       t \in {Absent, VInt(100), VStr(<<"1", "0", "0">>), VStr(<<"a">>)},
       x \in {Absent, VInt(1)}}

Category(name) ==
    VDict(<<Entry("name", VStr(name)), Entry("description", VStr(<<"d">>))>>)

\* prompt configuration files
PromptRaws ==
    {VDict(OptEntry("task", t) \o OptEntry("entities", e) \o OptEntry("categories", c)
             \o OptEntry("domain", d) \o OptEntry("temperature", x)
             \o OptEntry("foo", f)) :
       t \in {Absent, VNone, VStr(<<>>), VStr(TaskNER), VStr(TaskTextCat),
              VStr(<<"i", "n", "v", "a", "l", "i", "d">>), VStr(RefA)},
       e \in {Absent, VList(<<>>), VList(<<VStr(<<"P">>)>>)},
       c \in {Absent, VList(<<Category(<<"a">>)>>),
              VList(<<Category(<<"a">>), Category(<<"b">>)>>)},
       d \in {Absent, VStr(<<"d">>), VInt(1)},
       x \in {Absent, VFloat(5), VFloat(15)},
       f \in {Absent, VInt(1)}}

\* an empty file loads as None
ConfigRaws == LLMRaws \cup PromptRaws \cup {VNone}

OutputFolders == {None, "out"}

InitConfig ==
    /\ RunIdle
    /\ ParseIdle
    /\ LLMIdle
    /\ CommandsIdle
    /\ environ \in Environs
    /\ env_in = VNone
    /\ env_depth = 0
    /\ env_out = NoOutput
    /\ epc = "input"
    /\ cfg_raw \in ConfigRaws
    /\ output_folder \in OutputFolders
    /\ cfg_out = NoOutput
    /\ files = {}
    /\ cpc = "input"

NextConfig == LoadLLMConfig \/ LoadPromptConfig

SpecConfig == InitConfig /\ [][NextConfig]_vars

----------------------------------------------------------------------------
(* The generate command of the CLI (src/spacylize/cli.py): the constructor *)
(* and run() of DataGenerator inside the try statement of generate_data    *)

\* exceptions DataGenerator(...) lets through: those of load_llm_config and
\* load_prompt_config on a configuration file they reject
ConstructErrors ==
    {WrapValidation("Invalid LLM configuration:", LLMConfigErrors(VDict(<<>>))),
     AttributeError,
     RuntimeError(<<"Missing 'task' field in config. Must be 'ner' or 'textcat'.">>),
     WrapValidation("Invalid structured config:",
                    NERConfigErrors(VDict(<<Entry("task", VStr(TaskNER))>>)))}

\* the exception classes `except Exception` catches
ExceptionTypes ==
    {"ValueError", "RuntimeError", "AttributeError", "GenerationError"}

\* typer.echo(f"[Error] {e}")
ErrorLine(e) == [prefix |-> "[Error] ", exc |-> e]

\* lines 69-75: generator = DataGenerator(...)
CLIConstruct ==
    /\ cli_pc = "try"
    /\ pc = "new"
    /\ \E e \in {NoError} \cup ConstructErrors :
         IF e = NoError
         THEN pc' = "start" /\ error' = error
         ELSE pc' = "failed" /\ error' = e
    /\ UNCHANGED <<lookups, task, registry, n_samples, output_path, prompt_config, rnd,
                   handler, result, parsed_data, doc_bin, calls, disk, parseVars,
                   llmVars, envVars, cfgVars, cmdVars>>

\* a handler for configuration errors only: except RuntimeError as e
CLICatch_config_only ==
    /\ cli_pc = "try"
    /\ pc = "failed"
    /\ IF error.type = "RuntimeError"
       THEN /\ echoed' = Append(echoed, ErrorLine(error))
            /\ exit_code' = 1
            /\ cli_pc' = "exited"
       ELSE /\ cli_pc' = "escaped"
            /\ UNCHANGED <<echoed, exit_code>>
    /\ UNCHANGED <<runVars, parseVars, llmVars, envVars, cfgVars, valVars>>

\* lines 78-80: except Exception as e: echo the message, raise typer.Exit(code=1)
CLICatch ==
    /\ cli_pc = "try"
    /\ pc = "failed"
    /\ IF error.type \in ExceptionTypes
       THEN /\ echoed' = Append(echoed, ErrorLine(error))
            /\ exit_code' = 1
            /\ cli_pc' = "exited"
       ELSE /\ cli_pc' = "escaped"
            /\ UNCHANGED <<echoed, exit_code>>
    /\ UNCHANGED <<runVars, parseVars, llmVars, envVars, cfgVars, valVars>>

\* line 76 returned: generate_data returns and the command exits with 0
CLIReturn ==
    /\ cli_pc = "try"
    /\ pc = "done"
    /\ exit_code' = 0
    /\ cli_pc' = "exited"
    /\ UNCHANGED <<echoed, runVars, parseVars, llmVars, envVars, cfgVars, valVars>>

\* generate_data after its echoes of lines 62-67, at the try statement
InitCLI ==
    /\ task \in Tasks
    /\ registry = HANDLERS
    /\ n_samples \in 0..MaxSamples
    /\ output_path \in OutputPaths
    /\ prompt_config \in PromptConfigs
    /\ pc = "new"
    /\ rnd = 0
    /\ handler = [parser |-> "unbound", builder |-> "unbound"]
    /\ result = <<>>
    /\ parsed_data = NERParse(<<>>)
    /\ doc_bin = <<>>
    /\ calls = <<>>
    /\ disk = <<>>
    /\ error = NoError
    /\ lookups = <<>>
    /\ ParseIdle
    /\ LLMIdle
    /\ EnvIdle
    /\ ConfigIdle
    /\ cli_pc = "try"
    /\ exit_code = None
    /\ echoed = <<"Generating training data...">>
    /\ dataset = <<>>
    /\ task_arg = VNone
    /\ vtask = VNone
    /\ verr = NoError
    /\ reports = {}
    /\ vpc = "idle"

NextCLI ==
    CLIConstruct \/ Resolve \/ Generate \/ Parse \/ Build \/ Persist \/ CLICatch
    \/ CLIReturn

SpecCLI == InitCLI /\ [][NextCLI]_vars

----------------------------------------------------------------------------
(* DataValidator (src/spacylize/validator.py): the constructor and run().  *)
(* A document is its number of tokens, its entities (label and length in   *)
(* tokens) and its categories (label and score in tenths); a mean is kept  *)
(* in hundredths.                                                         *)

\* documents as DocBin.get_docs returns them: one and two entities, two
\* categories, no annotation
ValDocs ==
    {[tokens |-> 3, ents |-> <<[label |-> "B", len |-> 1]>>, cats |-> {}],
     [tokens |-> 5, ents |-> <<[label |-> "B", len |-> 2], [label |-> "A", len |-> 1]>>,
      cats |-> {}],
     [tokens |-> 2, ents |-> <<>>,
      cats |-> {[label |-> "pos", score |-> 10], [label |-> "neg", score |-> 0]}],
     [tokens |-> 1, ents |-> <<>>, cats |-> {}]}

\* str.lower() on the letters of the task names
Lower(chars) ==
    LET upper == <<"N", "E", "R">>
        lower == <<"n", "e", "r">>
        LowerChar(c) ==
            IF \E i \in 1..Len(upper) : upper[i] = c
            THEN lower[CHOOSE i \in 1..Len(upper) : upper[i] = c]
            ELSE c
    IN  [i \in 1..Len(chars) |-> LowerChar(chars[i])]

\* _detect_task(docs), lines 181-209
DetectTask(docs) ==
    IF docs = <<>>
    THEN [err |-> ValueError(<<"Dataset is empty, cannot detect task type">>)]
    ELSE IF docs[1].ents # <<>> THEN [err |-> NoError, task |-> TaskNER]
    ELSE IF docs[1].cats # {} THEN [err |-> NoError, task |-> TaskTextCat]
    ELSE [err |-> ValueError(<<"Could not detect task type. Dataset appears to have no entities or categories.">>)]

\* sum(values)
Total(values) ==
    LET acc[i \in 0..Len(values)] == IF i = 0 THEN 0 ELSE acc[i - 1] + values[i]
    IN  acc[Len(values)]

\* _summary(values), lines 211-227: the mean rounded to two decimals
Summary(values) ==
    IF values = <<>> THEN [min |-> 0, max |-> 0, mean |-> 0]
    ELSE
      LET n == Len(values)
          among == {values[i] : i \in 1..n}
      IN  [min |-> CHOOSE m \in among : \A x \in among : m <= x,
           max |-> CHOOSE m \in among : \A x \in among : x <= m,
           mean |-> (200 * Total(values) + n) \div (2 * n)]

\* counts[label] = counts.get(label, 0) + 1 over the labels, as a mapping
LabelCounts(labels) ==
    [l \in {labels[i] : i \in 1..Len(labels)} |->
        Cardinality({i \in 1..Len(labels) : labels[i] = l})]

\* the report of _validate_ner(docs), lines 81-127
NERReport(docs) ==
    LET all[i \in 0..Len(docs)] == IF i = 0 THEN <<>> ELSE all[i - 1] \o docs[i].ents
        ents == all[Len(docs)]
        doc_lengths == [i \in 1..Len(docs) |-> docs[i].tokens]
        ents_per_doc == [i \in 1..Len(docs) |-> Len(docs[i].ents)]
        entity_lengths == [k \in 1..Len(ents) |-> ents[k].len]
    IN  [dataset |-> [path |-> "data.spacy",
                      num_documents |-> Len(docs),
                      num_tokens |-> Total(doc_lengths),
                      num_entities |-> Total(ents_per_doc)],
         documents |-> [tokens_per_doc |-> Summary(doc_lengths),
                        entities_per_doc |-> Summary(ents_per_doc)],
         entities |-> [total |-> Total(ents_per_doc),
                       by_label |-> LabelCounts([k \in 1..Len(ents) |-> ents[k].label]),
                       entity_length_tokens |-> Summary(entity_lengths)]]

\* the report of _validate_textcat(docs), lines 137-167: a label counts for
\* a document when its score is above 0.5
TextCatReport(docs) ==
    LET doc_lengths == [i \in 1..Len(docs) |-> docs[i].tokens]
        Positive(i) == {c.label : c \in {x \in docs[i].cats : x.score > 5}}
        label_counts ==
            [l \in UNION {Positive(i) : i \in 1..Len(docs)} |->
                Cardinality({i \in 1..Len(docs) : l \in Positive(i)})]
    IN  [dataset |-> [path |-> "data.spacy",
                      num_documents |-> Len(docs),
                      num_tokens |-> Total(doc_lengths)],
         documents |-> [tokens_per_doc |-> Summary(doc_lengths)],
         labels |-> [total_unique |-> Cardinality(DOMAIN label_counts),
                     distribution |-> label_counts]]

\* _write_json(report) and the savefig of the plots: the two files at
\* json_path and png_path (lines 58-60) for the dataset data.spacy
WriteReports(report, title) ==
    {[folder |-> "reports", name |-> "data_report.json", content |-> report],
     [folder |-> "reports", name |-> "data_report.png", content |-> title]}

\* DataValidator(dataset_path, output_folder, task), lines 32-60
ValidatorInit ==
    /\ vpc = "new"
    /\ IF task_arg.kind = "none"
       THEN LET d == DetectTask(dataset)
            IN  IF d.err # NoError
                THEN /\ verr' = d.err
                     /\ vpc' = "failed"
                     /\ UNCHANGED vtask
                ELSE /\ vtask' = VStr(d.task)
                     /\ vpc' = "ready"
                     /\ UNCHANGED verr
       ELSE LET t == Lower(task_arg.chars)
            IN  /\ vtask' = VStr(t)
                /\ IF t \notin {TaskNER, TaskTextCat}
                   THEN /\ verr' = ValueError(<<"Unsupported task: ", t,
                                                ". Must be 'ner' or 'textcat'.">>)
                        /\ vpc' = "failed"
                   ELSE /\ vpc' = "ready"
                        /\ UNCHANGED verr
    /\ UNCHANGED <<dataset, task_arg, reports, cliVars, runVars, parseVars, llmVars,
                   envVars, cfgVars>>

\* run(), lines 62-80
ValidatorRun ==
    /\ vpc = "ready"
    /\ IF vtask.chars = TaskNER
       THEN /\ reports' = reports \cup WriteReports(NERReport(dataset),
                                                    "NER Dataset Validation Report")
            /\ vpc' = "done"
            /\ UNCHANGED verr
       ELSE IF vtask.chars = TaskTextCat
       THEN /\ reports' = reports \cup WriteReports(TextCatReport(dataset),
                                                    "Text Classification Dataset Validation")
            /\ vpc' = "done"
            /\ UNCHANGED verr
       ELSE /\ verr' = ValueError(<<"Unsupported task: ", vtask.chars>>)
            /\ vpc' = "failed"
            /\ UNCHANGED reports
    /\ UNCHANGED <<dataset, task_arg, vtask, cliVars, runVars, parseVars, llmVars,
                   envVars, cfgVars>>

\* a dataset file of at most MaxDocs documents and a task argument: not
\* given, a task name in either case, an unknown name
InitValidate ==
    /\ RunIdle
    /\ ParseIdle
    /\ LLMIdle
    /\ EnvIdle
    /\ ConfigIdle
    /\ cli_pc = "idle"
    /\ exit_code = None
    /\ echoed = <<>>
    /\ dataset \in UNION {[1..k -> ValDocs] : k \in 0..MaxDocs}
    /\ task_arg \in {VNone, VStr(TaskNER), VStr(<<"N", "E", "R">>), VStr(TaskTextCat),
                     VStr(<<"p", "o", "s">>)}
    /\ vtask = VNone
    /\ verr = NoError
    /\ reports = {}
    /\ vpc = "new"

NextValidate == ValidatorInit \/ ValidatorRun

SpecValidate == InitValidate /\ [][NextValidate]_vars

----------------------------------------------------------------------------
(* Properties of DataGenerator.run, checked under Spec *)

\* the document the handler pair makes of one completion text
DocOf(t) == BuilderBuild(handler.builder, ParserParse(handler.parser, t)).doc

\* the pair every generate call of this run should carry
PromptPair == [prompt |-> prompt_config.user, system_prompt |-> prompt_config.system]

\* C1: a run in which no call failed and every text was parseable ends
\* after exactly n_samples calls of generate, and the collection handed to
\* to_disk holds exactly n_samples documents (n_samples = 0 included); a run
\* of a registered task fails only if a call or a parse failed.
C1_RoundCount ==
    /\ pc = "done" =>
         /\ Len(calls) = n_samples
         /\ Len(disk) = 1
         /\ Len(disk[1].docs) = n_samples
    /\ (pc = "failed" /\ task \in DOMAIN HANDLERS) =>
         /\ calls # <<>>
         /\ LET last == calls[Len(calls)].out
            IN  \/ last.err # NoError
                \/ ParserParse(handler.parser, last.text).err # NoError

C1_Witness ==
    /\ pc = "done"
    /\ n_samples >= 2
    /\ Len(calls) = n_samples
    /\ Len(disk[1].docs) = n_samples

\* C2: with a task that is not registered the run fails with the
\* unsupported-task error before any generate call: no call is ever made and
\* to_disk is never called.
C2_UnknownTaskFailsFast ==
    task \notin DOMAIN HANDLERS =>
        /\ calls = <<>>
        /\ disk = <<>>
        /\ pc \in {"start", "failed"}
        /\ pc = "failed" => error = UnsupportedTask(task)

C2_Witness ==
    /\ task = "sentiment"
    /\ pc = "failed"
    /\ error.type = "ValueError"
    /\ calls = <<>>

\* the failure of the round the last call belongs to
RoundFailure ==
    LET last == calls[Len(calls)].out
    IN  IF last.err # NoError THEN last.err
        ELSE ParserParse(handler.parser, last.text).err

\* C3: when a generate call fails or the parser raises, the run ends with
\* that error and to_disk is never called, however many documents earlier
\* rounds had added.
C3_FailureAbortsWithoutPersist ==
    /\ error # NoError => (pc = "failed" /\ disk = <<>>)
    /\ (error # NoError /\ calls # <<>>) =>
         (RoundFailure # NoError /\ error = RoundFailure)

C3_Witness ==
    /\ pc = "failed"
    /\ error.type = "ValueError"
    /\ Len(doc_bin) >= 1
    /\ disk = <<>>

\* C4: no retry and no continuation: when a round has failed, generate has
\* been called exactly as many times as the number of the failed round (one
\* more than the documents added), and afterwards no round is started and no
\* call is made.
C4_NoRetry ==
    /\ [](((error # NoError) /\ (calls # <<>>)) =>
            (Len(calls) = rnd /\ Len(calls) = Len(doc_bin) + 1))
    /\ [][(error # NoError) => (rnd' = rnd /\ calls' = calls)]_vars

C4_Witness ==
    /\ pc = "failed"
    /\ rnd = 2
    /\ n_samples > rnd
    /\ Len(calls) = 2
    /\ calls[1].out.err = NoError
    /\ calls[2].out.err # NoError

\* C5: at every point of the run the k-th document of the collection is the
\* one built from the k-th completion result, and the persisted collection
\* has the documents in that same order.
C5_RoundOrder ==
    /\ \A k \in 1..Len(doc_bin) : doc_bin[k] = DocOf(calls[k].out.text)
    /\ \A d \in 1..Len(disk) :
         /\ Len(disk[d].docs) = Len(doc_bin)
         /\ \A k \in 1..Len(doc_bin) :
              disk[d].docs[k] = DocOf(calls[k].out.text)

C5_Witness ==
    /\ pc = "done"
    /\ Len(doc_bin) >= 2
    /\ doc_bin[1] # doc_bin[2]
    /\ disk[1].docs = doc_bin

\* C6: without failures the collection is written exactly once, to
\* output_path, after all n_samples rounds have completed; to_disk is never
\* called while a round is pending, and no generate call follows to_disk.
C6_PersistOnceAtEnd ==
    /\ [](/\ Len(disk) <= 1
          /\ (pc = "done") => (Len(disk) = 1)
          /\ (disk # <<>>) =>
               /\ pc = "done"
               /\ rnd = n_samples
               /\ Len(doc_bin) = n_samples
               /\ disk[1] = [path |-> output_path, docs |-> doc_bin])
    /\ [][(disk # <<>>) => (calls' = calls /\ disk' = disk)]_vars

C6_Witness ==
    /\ pc = "done"
    /\ n_samples >= 2
    /\ Len(disk) = 1
    /\ disk[1].path = output_path
    /\ Len(disk[1].docs) = n_samples

\* C7: every generate call of a run carries the user and system contents of
\* the prompt configuration, and no step of the run changes the prompt
\* configuration, whatever the earlier completion results were.
C7_FixedPromptPair ==
    /\ [](\A k \in 1..Len(calls) : calls[k].args = PromptPair)
    /\ [][prompt_config' = prompt_config]_vars

C7_Witness ==
    /\ Len(calls) >= 2
    /\ calls[1].out # calls[2].out
    /\ calls[1].args = calls[2].args
    /\ calls[2].args.prompt = prompt_config.user
    /\ prompt_config.user # prompt_config.system

----------------------------------------------------------------------------
(* Properties of NERParser.parse, checked under SpecParse *)

\* C8: the k-th span returned by NERParser.parse carries the label of the
\* k-th matched marker, and its offsets select that marker's entity text in
\* the clean text.
C8_OffsetCorrectness ==
    ppc = "parsed" =>
        LET ms == FindIter(text, 0)
            es == ner_out.entities
        IN  /\ Len(es) = Len(ms)
            /\ \A k \in 1..Len(es) :
                 /\ es[k].start >= 0
                 /\ es[k].end <= Len(ner_out.clean_text)
                 /\ Slice(ner_out.clean_text, es[k].start, es[k].end) = ms[k].group1
                 /\ es[k].label = ms[k].group2

\* two markers, the second at a clean-text offset that differs from its
\* offset in the raw text
C8_Witness ==
    /\ ppc = "parsed"
    /\ Len(ner_out.entities) = 2
    /\ ner_out.entities[2].start # FindIter(text, 0)[2].start
    /\ ner_out.entities[1].label # ner_out.entities[2].label
    /\ Slice(ner_out.clean_text, ner_out.entities[2].start,
             ner_out.entities[2].end) = <<"a", " ", "a">>

\* C9: the spans returned by NERParser.parse satisfy
\* 0 <= start < end <= len(clean_text), are in strictly increasing order and
\* do not overlap: each span ends at or before the start of the next.
C9_SpansWellFormed ==
    ppc = "parsed" =>
        LET es == ner_out.entities
        IN  /\ \A k \in 1..Len(es) :
                 /\ 0 <= es[k].start
                 /\ es[k].start < es[k].end
                 /\ es[k].end <= Len(ner_out.clean_text)
            /\ \A k \in 1..(Len(es) - 1) :
                 /\ es[k].start < es[k + 1].start
                 /\ es[k].end <= es[k + 1].start

\* two spans that touch
C9_Witness ==
    /\ ppc = "parsed"
    /\ Len(ner_out.entities) >= 2
    /\ ner_out.entities[1].end = ner_out.entities[2].start
    /\ ner_out.entities[2].end <= Len(ner_out.clean_text)

\* C10: NERParser.parse raises on no input, and an input without a
\* well-formed marker comes back unchanged with no spans.
C10_NeverFails ==
    ppc = "parsed" =>
        /\ ner_out.err = NoError
        /\ FindIter(text, 0) = <<>> =>
             /\ ner_out.clean_text = text
             /\ ner_out.entities = <<>>

\* malformed markup: a marker with empty entity text
C10_Witness ==
    /\ ppc = "parsed"
    /\ text = <<"[", "]", "(", "a", ")">>
    /\ ner_out.clean_text = text
    /\ ner_out.entities = <<>>

----------------------------------------------------------------------------
(* Properties of TextCatParser.parse, checked under SpecCat *)

\* number of occurrences of sep in s, counted left to right without overlap
RECURSIVE CountSub(_, _, _)
CountSub(s, sep, at) ==
    IF at + Len(sep) > Len(s) THEN 0
    ELSE IF StartsWithAt(s, sep, at) THEN 1 + CountSub(s, sep, at + Len(sep))
    ELSE CountSub(s, sep, at + 1)

\* offset of the first occurrence of sep in s (there is one)
FirstSub(s, sep) ==
    CHOOSE i \in 0..Len(s) :
        /\ StartsWithAt(s, sep, i)
        /\ \A j \in 0..(i - 1) : ~StartsWithAt(s, sep, j)

\* the text before and after the first delimiter
BodyOf(s) == Slice(s, 0, FirstSub(s, Delimiter))
AfterDelimiter(s) == Slice(s, FirstSub(s, Delimiter) + Len(Delimiter), Len(s))

\* offset i starts "LABEL:", blanks up to offset j, and a word of s[j:k]
\* that no word character follows
LabelAt(s, i, j, k) ==
    /\ StartsWithAt(s, LabelKey, i)
    /\ i + Len(LabelKey) <= j
    /\ j < k
    /\ k <= Len(s)
    /\ \A q \in (i + Len(LabelKey))..(j - 1) : CharAt(s, q) \in Whitespace
    /\ \A q \in j..(k - 1) : CharAt(s, q) \in WordChars
    /\ k < Len(s) => CharAt(s, k) \notin WordChars

\* s has a 'LABEL: <word>' somewhere
HasLabel(s) == \E i, j, k \in 0..Len(s) : LabelAt(s, i, j, k)

\* name is the word of the leftmost 'LABEL: <word>' of s
NamedCategory(s, name) ==
    \E i, j, k \in 0..Len(s) :
        /\ LabelAt(s, i, j, k)
        /\ name = Slice(s, j, k)
        /\ \A i2 \in 0..(i - 1) : \A j2, k2 \in 0..Len(s) : ~LabelAt(s, i2, j2, k2)

\* t is s without its leading and trailing blanks
TrimOf(s, t) ==
    /\ t # <<>> => (t[1] \notin Whitespace /\ t[Len(t)] \notin Whitespace)
    /\ \E i, j \in 0..Len(s) :
         /\ i <= j
         /\ t = Slice(s, i, j)
         /\ \A q \in 0..(i - 1) : CharAt(s, q) \in Whitespace
         /\ \A q \in j..(Len(s) - 1) : CharAt(s, q) \in Whitespace

\* C11: TextCatParser.parse fails with a ValueError when the text has no
\* '---', when it has more than one, or when the part after the delimiter
\* has no 'LABEL: <word>'; a 'LABEL: <word>' before the delimiter does not
\* help.
C11_FormatErrors ==
    ppc = "parsed" =>
        ((\/ CountSub(text, Delimiter, 0) # 1
          \/ ~HasLabel(AfterDelimiter(text)))
         => cat_out.err.type = "ValueError")

\* one delimiter, the label only in the body
C11_Witness ==
    /\ ppc = "parsed"
    /\ CountSub(text, Delimiter, 0) = 1
    /\ HasLabel(BodyOf(text))
    /\ ~HasLabel(AfterDelimiter(text))
    /\ cat_out.err.type = "ValueError"

\* C12: when TextCatParser.parse succeeds the text has exactly one
\* delimiter, the returned text is the part before it without leading and
\* trailing blanks, and the categories have exactly one entry: the word of
\* the first 'LABEL: <word>' after the delimiter, with score 1.0.
C12_SuccessValue ==
    (ppc = "parsed" /\ cat_out.err = NoError) =>
        /\ CountSub(text, Delimiter, 0) = 1
        /\ TrimOf(BodyOf(text), cat_out.clean_text)
        /\ Cardinality(cat_out.categories) = 1
        /\ \A c \in cat_out.categories :
             /\ c.score = 1
             /\ NamedCategory(AfterDelimiter(text), c.name)

\* blanks on both sides of the body
C12_Witness ==
    /\ ppc = "parsed"
    /\ cat_out.err = NoError
    /\ BodyOf(text) = <<"\n", "a", "\n">>
    /\ cat_out.clean_text = <<"a">>
    /\ cat_out.categories = {[name |-> <<"a">>, score |-> 1]}

----------------------------------------------------------------------------
(* Properties of TaskHandler, checked under Spec *)

Range(f) == {f[x] : x \in DOMAIN f}

\* C13: get_handler("ner") returns the NER parser and builder,
\* get_handler("textcat") the TextCat parser and builder; for every other
\* name it raises a ValueError whose message names both supported tasks;
\* no lookup changes the registry.
C13_RegistryClosure ==
    /\ [][registry' = registry]_vars
    /\ [](pc # "start" =>
            /\ task = "ner" =>
                 handler = [parser |-> "NERParser",
                            builder |-> "NERDocumentBuilder"]
            /\ task = "textcat" =>
                 handler = [parser |-> "TextCatParser",
                            builder |-> "TextCatDocumentBuilder"]
            /\ task \notin {"ner", "textcat"} =>
                 /\ pc = "failed"
                 /\ error.type = "ValueError"
                 /\ {"ner", "textcat"} \subseteq Range(error.msg)
                 /\ handler = [parser |-> "unbound", builder |-> "unbound"])

\* the lookup is case sensitive
C13_Witness ==
    /\ task = "NER"
    /\ pc = "failed"
    /\ task \in Range(error.msg)
    /\ "textcat" \in Range(error.msg)
    /\ registry = HANDLERS

----------------------------------------------------------------------------
(* Properties of NERDocumentBuilder.build, checked under SpecParse *)

\* the span lies on token boundaries of the clean text
OnTokenBoundaries(e) ==
    /\ e.start \in TokenStarts(ner_out.clean_text)
    /\ e.end \in TokenEnds(ner_out.clean_text)

\* C14: NERDocumentBuilder.build does not raise; the document has the clean
\* text and exactly the parsed spans that lie on token boundaries, in their
\* order and with start, end and label unchanged; a span that splits a token
\* is in the parsed annotation and not in the document, and every span of
\* the document is a parsed span.
C14_AlignedSpansKept ==
    ppc = "built" =>
        LET starts == TokenStarts(ner_out.clean_text)
            ends == TokenEnds(ner_out.clean_text)
            Aligned(e) == e.start \in starts /\ e.end \in ends
        IN  /\ doc_out.err = NoError
            /\ doc_out.doc.text = ner_out.clean_text
            /\ doc_out.doc.ents = SelectSeq(ner_out.entities, Aligned)
            /\ \A k \in 1..Len(ner_out.entities) :
                 ~Aligned(ner_out.entities[k]) =>
                     ner_out.entities[k] \notin Range(doc_out.doc.ents)
            /\ Range(doc_out.doc.ents) \subseteq Range(ner_out.entities)

\* the first span splits a token and is dropped, the second is kept
C14_Witness ==
    /\ ppc = "built"
    /\ Len(ner_out.entities) = 2
    /\ ~OnTokenBoundaries(ner_out.entities[1])
    /\ doc_out.err = NoError
    /\ doc_out.doc.ents = <<ner_out.entities[2]>>

----------------------------------------------------------------------------
(* Properties of LLMClient.generate, checked under SpecLLM *)

\* the keyword arguments of the completion call of the current generate call
LastKwargs == completion_calls[Len(completion_calls)]

\* generate has made one completion call per generate call, and returns the
\* content of the first choice
OneCallFirstChoice ==
    /\ Len(completion_calls) = gen_count
    /\ llm_ret.err = llm_resp.err
    /\ llm_ret.err = NoError =>
         llm_ret.text = llm_resp.choices[1].message.content

\* the messages are the system message, when a system prompt is given, and
\* then the user message
MessagesAsGiven ==
    LastKwargs.messages =
        IF llm_args.system_prompt \in {None, ""}
        THEN <<[role |-> "user", content |-> llm_args.prompt]>>
        ELSE <<[role |-> "system", content |-> llm_args.system_prompt],
               [role |-> "user", content |-> llm_args.prompt]>>

\* C16: generate calls completion once and returns the content of the first
\* choice; the messages are the system message (when given) and the user
\* message; the call carries model, max_tokens, api_key and api_base, with
\* api_base = None when no API base was configured.
C16_CompletionCall ==
    lpc = "returned" =>
        /\ OneCallFirstChoice
        /\ MessagesAsGiven
        /\ llm_client.api_key = "test-key" =>
             /\ DOMAIN LastKwargs =
                  {"model", "messages", "max_tokens", "api_key", "api_base"}
             /\ LastKwargs.model = llm_client.model
             /\ LastKwargs.max_tokens = llm_client.max_tokens
             /\ LastKwargs.api_key = llm_client.api_key
             /\ LastKwargs.api_base =
                  (IF llm_client.api_base = "" THEN None ELSE llm_client.api_base)

----------------------------------------------------------------------------
(* Properties of _expand_env_vars, checked under SpecEnv *)

\* the whole string has the form ${NAME} with a non-empty NAME without "}"
IsWholeRef(chars) ==
    /\ Len(chars) >= 4
    /\ chars[1] = "$"
    /\ chars[2] = "{"
    /\ chars[Len(chars)] = "}"
    /\ \A i \in 3..(Len(chars) - 1) : chars[i] # "}"

\* w is v with every whole-reference string leaf replaced by the value of
\* its variable (None when unset) and everything else as it was
RECURSIVE IsExpansionOf(_, _)
IsExpansionOf(v, w) ==
    IF v.kind = "str" /\ IsWholeRef(v.chars)
    THEN LET name == SubSeq(v.chars, 3, Len(v.chars) - 1)
         IN  IF name \in DOMAIN environ
             THEN w.kind = "str" /\ w.chars = environ[name]
             ELSE w.kind = "none"
    ELSE IF v.kind = "dict"
    THEN /\ w.kind = "dict"
         /\ Len(w.entries) = Len(v.entries)
         /\ \A i \in 1..Len(v.entries) :
              /\ w.entries[i].key = v.entries[i].key
              /\ IsExpansionOf(v.entries[i].val, w.entries[i].val)
    ELSE IF v.kind = "list"
    THEN /\ w.kind = "list"
         /\ Len(w.items) = Len(v.items)
         /\ \A i \in 1..Len(v.items) : IsExpansionOf(v.items[i], w.items[i])
    ELSE w.kind = v.kind /\ w = v

\* C20: in any nesting of mappings and sequences _expand_env_vars replaces a
\* string leaf that is as a whole ${NAME} by the value of NAME and returns
\* every other string and every non-string leaf unchanged; keys, lengths and
\* order are kept.
C20_EnvExpansion ==
    epc = "expanded" => IsExpansionOf(env_in, env_out)

\* a mapping in a sequence: a replaced leaf, a leaf that only contains a
\* reference, and a key that looks like a reference
C20_Witness ==
    /\ epc = "expanded"
    /\ environ # EmptyEnv
    /\ env_in = VList(<<VStr(<<"x">> \o RefA),
                        VDict(<<Entry("${A}", VStr(RefA)),
                                Entry("name", VInt(1))>>)>>)
    /\ env_out = VList(<<VStr(<<"x">> \o RefA),
                         VDict(<<Entry("${A}", VStr(<<"n", "e", "r">>)),
                                 Entry("name", VInt(1))>>)>>)

----------------------------------------------------------------------------
(* Properties of load_llm_config and load_prompt_config, checked under     *)
(* SpecConfig                                                              *)

\* the loader raised a RuntimeError whose message starts with head and
\* returned nothing
FailedWith(head) ==
    /\ cfg_out.err.type = "RuntimeError"
    /\ cfg_out.err.msg[1] = head
    /\ "value" \notin DOMAIN cfg_out

\* the task of a NER config is valid but a required field is missing or a
\* field is invalid
NERInvalid(e) ==
    \/ "entities" \notin Keys(e)
    \/ Get(e, "entities").items = <<>>
    \/ "domain" \notin Keys(e)
    \/ Get(e, "domain").kind # "str"
    \/ "temperature" \in Keys(e) /\ Get(e, "temperature").tenths > 10

\* the same for a text classification config
TextCatInvalid(e) ==
    \/ "categories" \notin Keys(e)
    \/ Len(Get(e, "categories").items) < 2
    \/ "domain" \notin Keys(e)
    \/ Get(e, "domain").kind # "str"
    \/ "temperature" \in Keys(e) /\ Get(e, "temperature").tenths > 10

C18_LLMConfigFields ==
    (cpc = "llm_loaded" /\ cfg_raw.kind = "dict") =>
        LET other == Keys(cfg_raw) \ {"model", "api_key", "api_base", "max_tokens"}
        IN  /\ other # {} =>
                 /\ FailedWith("Invalid LLM configuration:")
                 /\ \A k \in other : Err(k, "extra_forbidden") \in cfg_out.err.msg[2]
            /\ "model" \notin Keys(cfg_raw) =>
                 /\ FailedWith("Invalid LLM configuration:")
                 /\ Err("model", "missing") \in cfg_out.err.msg[2]

\* a config with a model and a temperature
C18_Witness ==
    /\ cpc = "llm_loaded"
    /\ cfg_raw = VDict(<<Entry("model", VStr(<<"g", "p", "t">>)),
                         Entry("temperature", VInt(1))>>)
    /\ FailedWith("Invalid LLM configuration:")
    /\ cfg_out.err.msg[2] = {Err("temperature", "extra_forbidden")}

\* the top-level fields the prompt schemas define
PromptSchemaFields == StructuredFields \cup {"entities", "categories"}

\* C19: load_prompt_config raises a RuntimeError when the prompt
\* configuration has a top-level field that its schema does not define.
C19_UnknownFieldRejected ==
    (cpc = "prompt_loaded" /\ cfg_raw.kind = "dict"
       /\ Keys(cfg_raw) \ PromptSchemaFields # {}) =>
        cfg_out.err.type = "RuntimeError"

----------------------------------------------------------------------------
(* Properties of the clean text of NERParser.parse, checked under SpecParse *)

\* the input from offset `from` on with each marker of ms replaced by its
\* entity text
RECURSIVE Replaced(_, _, _)
Replaced(s, from, ms) ==
    IF ms = <<>> THEN Slice(s, from, Len(s))
    ELSE Slice(s, from, Head(ms).start) \o Head(ms).group1
           \o Replaced(s, Head(ms).end, Tail(ms))

\* the characters the markers of ms lose: brackets, parentheses and label
RECURSIVE MarkupLen(_)
MarkupLen(ms) ==
    IF ms = <<>> THEN 0 ELSE Len(Head(ms).group2) + 4 + MarkupLen(Tail(ms))

\* C23: the clean text of NERParser.parse is the input with each matched
\* marker, left to right, replaced by its entity text and everything else
\* copied in order; there is one span per matched marker and the clean text
\* is shorter than the input by len(LABEL) + 4 per marker.
C23_CleanText ==
    ppc = "parsed" =>
        LET ms == FindIter(text, 0)
        IN  /\ ner_out.clean_text = Replaced(text, 0, ms)
            /\ Len(ner_out.entities) = Len(ms)
            /\ Len(ner_out.clean_text) = Len(text) - MarkupLen(ms)

\* two markers with text before, between and after them
C23_Witness ==
    /\ ppc = "parsed"
    /\ text = <<"a">> \o Marker \o <<" ">> \o Marker2 \o <<")">>
    /\ ner_out.clean_text = <<"a", "a", " ", "a", " ", "a", ")">>
    /\ Len(ner_out.entities) = 2

\* s has a substring of the form [ENTITY_TEXT](LABEL)
HasMarker(s) ==
    \E i \in 1..Len(s) :
        /\ s[i] = "["
        /\ \E j \in (i + 2)..(Len(s) - 1) :
             /\ s[j] = "]"
             /\ s[j + 1] = "("
             /\ \A x \in (i + 1)..(j - 1) : s[x] # "]"
             /\ \E k \in (j + 3)..Len(s) :
                  /\ s[k] = ")"
                  /\ \A x \in (j + 2)..(k - 1) : s[x] # ")"

\* parsing s again gives s back with no spans
ParseIsIdentity(s) ==
    LET again == NERParse(s)
    IN  /\ again.clean_text = s
        /\ again.entities = <<>>

\* C24: the clean text of NERParser.parse contains no substring of the marker
\* form, so parsing it again yields the same text and no spans.
C24_NoMarkupLeft ==
    ppc = "parsed" =>
        /\ ~HasMarker(ner_out.clean_text)
        /\ ParseIsIdentity(ner_out.clean_text)

\* no matched entity text contains an opening bracket or parenthesis
PlainEntityTexts(ms) ==
    \A n \in 1..Len(ms) : \A x \in 1..Len(ms[n].group1) :
        ms[n].group1[x] \notin {"[", "("}

\* C24 as amended: when no matched entity text contains "[" or "(", the
\* clean text contains no substring of the marker form and parsing it again
\* yields the same text and no spans.
C24_NoMarkupLeft_plain ==
    (ppc = "parsed" /\ PlainEntityTexts(FindIter(text, 0))) =>
        /\ ~HasMarker(ner_out.clean_text)
        /\ ParseIsIdentity(ner_out.clean_text)

\* two markers stripped, stray brackets left in the clean text
C24_Witness ==
    /\ ppc = "parsed"
    /\ Len(FindIter(text, 0)) = 2
    /\ PlainEntityTexts(FindIter(text, 0))
    /\ \E x \in 1..Len(ner_out.clean_text) : ner_out.clean_text[x] = "]"
    /\ \E x \in 1..Len(ner_out.clean_text) : ner_out.clean_text[x] = "("
    /\ ~HasMarker(ner_out.clean_text)

----------------------------------------------------------------------------
(* Properties of NERDocumentBuilder.build on the output of NERParser.parse, *)
(* checked under SpecParse                                                  *)

\* no two of the spans share a character
Disjoint(spans) ==
    \A i, j \in 1..Len(spans) :
        i < j => (spans[i].end <= spans[j].start \/ spans[j].end <= spans[i].start)

\* C28: building a document from the output of NERParser.parse never raises,
\* and the spans stored in the document are spans the parser returned, lie
\* inside the text and are pairwise non-overlapping.
C28_BuildNeverFails ==
    ppc = "built" =>
        /\ doc_out.err = NoError
        /\ doc_out.doc.text = ner_out.clean_text
        /\ Disjoint(doc_out.doc.ents)
        /\ \A k \in 1..Len(doc_out.doc.ents) :
             /\ \E m \in 1..Len(ner_out.entities) :
                  doc_out.doc.ents[k] = ner_out.entities[m]
             /\ 0 <= doc_out.doc.ents[k].start
             /\ doc_out.doc.ents[k].start < doc_out.doc.ents[k].end
             /\ doc_out.doc.ents[k].end <= Len(doc_out.doc.text)

\* a document that stores three spans
C28_Witness ==
    /\ ppc = "built"
    /\ doc_out.err = NoError
    /\ Len(ner_out.entities) = 3
    /\ Len(doc_out.doc.ents) = 3

----------------------------------------------------------------------------
(* Properties of the rounds of DataGenerator.run, checked under Spec and   *)
(* SpecLive                                                                *)

\* the rounds that ran to their end
CompletedRounds ==
    IF pc \in {"parse", "build"} \/ (pc = "failed" /\ rnd > 0) THEN rnd - 1 ELSE rnd

\* C25: the collection starts empty and grows by append only: its size is the
\* number of completed rounds and never exceeds n_samples, each round adds
\* exactly one document (also when spans were dropped), and a document once
\* added is never removed, replaced or reordered.
C25_AppendOnly ==
    /\ [](/\ pc = "start" => doc_bin = <<>>
          /\ Len(doc_bin) = CompletedRounds
          /\ Len(doc_bin) <= n_samples)
    /\ [][\/ doc_bin' = doc_bin
          \/ /\ Len(doc_bin') = Len(doc_bin) + 1
             /\ SubSeq(doc_bin', 1, Len(doc_bin)) = doc_bin]_vars
    /\ [][(pc = "build" /\ pc' = "loop") => Len(doc_bin') = Len(doc_bin) + 1]_vars

\* a round whose only span was dropped still added its document
C25_Witness ==
    /\ pc = "done"
    /\ Len(doc_bin) = 2
    /\ calls[1].out.text = NerMisaligned
    /\ task = "ner"
    /\ doc_bin[1].text = <<"a", "b">>
    /\ doc_bin[1].ents = <<>>
    /\ doc_bin[2].ents # <<>>

\* C26: rounds run one at a time: a generate call is issued only when the
\* documents of all earlier rounds are in the collection, at most one round
\* is in progress, and the collection is written only by the round in
\* progress.
C26_OneRoundAtATime ==
    /\ [](/\ Len(calls) = rnd
          /\ Len(calls) - Len(doc_bin) \in {0, 1})
    /\ [][calls' # calls => (pc = "loop" /\ Len(doc_bin) = Len(calls))]_vars
    /\ [][doc_bin' # doc_bin =>
            (pc = "build" /\ Len(calls) = Len(doc_bin) + 1)]_vars

\* the second round in progress, the first one appended
C26_Witness ==
    /\ pc = "parse"
    /\ rnd = 2
    /\ Len(calls) = 2
    /\ Len(doc_bin) = 1

\* the document the pair registered for task t makes of a completion text
ExpectedDoc(t, s) ==
    IF t = "ner" THEN NERBuild(NERParse(s)).doc
                 ELSE TextCatBuild(TextCatParse(s)).doc

\* C27: the pair is looked up exactly once per run, before the first round,
\* and every round parses and builds with that pair: no round looks the task
\* up again or uses the handler of another task.
C27_ResolvedOnce ==
    /\ [](/\ pc = "start" => lookups = <<>>
          /\ pc # "start" => lookups = <<task>>
          /\ calls # <<>> => handler = HANDLERS[task]
          /\ \A k \in 1..Len(doc_bin) :
               doc_bin[k] = ExpectedDoc(task, calls[k].out.text))
    /\ [][pc # "start" => (lookups' = lookups /\ handler' = handler)]_vars

\* a text classification run of two rounds
C27_Witness ==
    /\ pc = "done"
    /\ task = "textcat"
    /\ lookups = <<"textcat">>
    /\ Len(doc_bin) = 2
    /\ doc_bin[2].cats # {}

\* C29: the pair a run uses depends on the task argument only: whatever task
\* the prompt configuration was rendered for, the run uses the pair of its
\* own task, and a run is rejected before its first call only when its own
\* task is not registered.
C29_HandlerByTaskOnly ==
    /\ (pc # "start" /\ task \in DOMAIN HANDLERS) => handler = HANDLERS[task]
    /\ (pc = "failed" /\ calls = <<>>) =>
         (task \notin DOMAIN HANDLERS /\ error = UnsupportedTask(task))

\* a NER run with the prompts of a text classification configuration
C29_Witness ==
    /\ pc = "done"
    /\ task = "ner"
    /\ PromptTask(prompt_config) = "textcat"
    /\ handler.parser = "NERParser"
    /\ Len(doc_bin) >= 1

\* every call made so far returned a string
CollaboratorReturns == \A k \in 1..Len(calls) : calls[k].out.err = NoError

\* a completion text TextCatParser.parse does not accept
MalformedCat(s) == CountSub(s, Delimiter, 0) # 1 \/ ~HasLabel(AfterDelimiter(s))

\* some call returned a malformed text
MalformedResult ==
    \E k \in 1..Len(calls) :
        calls[k].out.err = NoError /\ MalformedCat(calls[k].out.text)

\* C30: a NER run whose collaborator returns a string on every call never
\* fails and ends after exactly n_samples rounds with the collection
\* written; a text classification run is aborted by the first malformed
\* result.
C30_NERNeverAborts ==
    /\ []((task = "ner" /\ CollaboratorReturns) => pc # "failed")
    /\ (task = "ner") ~> (pc = "done" \/ ~CollaboratorReturns)
    /\ []((task = "ner" /\ pc = "done") =>
            (rnd = n_samples /\ Len(calls) = n_samples /\ Len(disk) = 1))
    /\ []((task = "textcat" /\ MalformedResult) =>
            (/\ MalformedCat(calls[Len(calls)].out.text)
             /\ pc \in {"parse", "failed"}
             /\ disk = <<>>))
    /\ (task = "textcat" /\ MalformedResult) ~> (pc = "failed")

\* a NER run that got two malformed texts and still wrote its collection
C30_Witness ==
    /\ pc = "done"
    /\ task = "ner"
    /\ n_samples >= 2
    /\ \E k \in 1..Len(calls) : calls[k].out.text = NerBroken
    /\ \E k \in 1..Len(calls) : calls[k].out.text = CatNoLabel
    /\ Len(disk) = 1

----------------------------------------------------------------------------
(* Properties of the generate command, checked under SpecCLI *)

\* C22: an exception raised by the constructor or by run() never leaves the
\* generate command: the command prints the error message and exits with
\* status 1, and it exits with status 0 only after a run that wrote its
\* collection without an error.
C22_ErrorsReported ==
    /\ cli_pc # "escaped"
    /\ pc = "failed" => error # NoError
    /\ (cli_pc = "exited" /\ error # NoError) =>
         /\ exit_code = 1
         /\ echoed[Len(echoed)] = ErrorLine(error)
    /\ (cli_pc = "exited" /\ exit_code = 0) =>
         /\ pc = "done"
         /\ error = NoError
         /\ Len(disk) = 1
         /\ Len(echoed) = 1
    /\ cli_pc = "exited" => exit_code \in {0, 1}
    /\ cli_pc # "exited" => exit_code = None

\* the second call of generate failed and the command exited with status 1
C22_Witness ==
    /\ cli_pc = "exited"
    /\ exit_code = 1
    /\ error = GenerationError
    /\ rnd = 2
    /\ echoed[Len(echoed)] = ErrorLine(GenerationError)

----------------------------------------------------------------------------
(* Properties of DataValidator, checked under SpecValidate *)

\* the report files of a finished validation
JsonReports == {f \in reports : f.name = "data_report.json"}
PngReports == {f \in reports : f.name = "data_report.png"}

\* C21: validating a dataset without documents, no task given, raises
\* nothing: the constructor returns, and after run() the JSON and the PNG
\* report exist and the JSON report has num_documents = 0, num_entities = 0
\* and an empty by_label mapping.
C21_EmptyDatasetValidates ==
    (dataset = <<>> /\ task_arg.kind = "none" /\ vpc # "new") =>
        /\ verr = NoError
        /\ vpc \in {"ready", "done"}
        /\ vpc = "done" =>
             /\ PngReports # {}
             /\ JsonReports # {}
             /\ \A f \in JsonReports :
                  /\ f.content.dataset.num_documents = 0
                  /\ f.content.dataset.num_entities = 0
                  /\ DOMAIN f.content.entities.by_label = {}

====
